---- MODULE Spec2Model ----
(***************************************************************************)
(* A model of the Huenit pen-plotter skill: the drawing scripts            *)
(* (huenit_draw.py, huenit_svg.py, huenit_write.py), their serial driver   *)
(* GCodeIO, and the narrating supervisor bob_ross.py.                      *)
(*                                                                         *)
(* Lengths inside the scripts are Python floats.  They are modelled in     *)
(* fixed point: one internal unit is 1/Sub of 0.001 mm.  A length written  *)
(* to the wire goes through the script's "%.3f" / "%.2f" formatting, which *)
(* is modelled by rounding (half to even) to the wire's unit of 0.001 mm.  *)
(***************************************************************************)
EXTENDS Integers, Sequences, FiniteSets, TLC

VARIABLES
    job,        \* the command line of the drawing script and the files it reads
    pc,         \* where the script's main() is
    exitCode,   \* the script's exit status: -1 while it runs
    todo,       \* the g.send calls the running function still has to make, in order
    wire,       \* every line written to the serial port so far, in order
    sphase,     \* GCodeIO.send: "idle" (no call active) or "wait" (in its poll loop)
    returned,   \* number of GCodeIO.send calls that have returned
    lastEnd,    \* how the last send ended: "none", "ok" or "timeout"
    ownAck,     \* was the ack of its own line in buf when the last send returned
    drained,    \* was the controller's motion queue empty when the last send returned
    everOk,     \* has any send ended by matching 'ok'
    sawStop,    \* was bob_ross.py's stop_flag set when the current send was written
    buf,        \* GCodeIO.buf: the acks received and not yet cleared (by wire index)
    rx,         \* acks the controller has sent that _rx_loop has not read yet
    cin,        \* number of wire lines the controller has consumed
    queue,      \* motions the controller has accepted and not yet executed
    is_up,      \* draw_segments / Pen: the tracked pen state
    cur_x,      \* draw_segments / Pen: the tracked cursor
    cur_y,
    seg_i,      \* draw_segments: segments processed; render_text: characters processed
    txt_x,      \* render_text: its cursor_x
    line_i,     \* huenit_write main: lines processed
    y_moved,    \* huenit_write main: total_y_moved
    mpc,        \* bob_ross.py: where main() is; "none" when the script runs on its own
    no_voice,   \* bob_ross.py: args.no_voice
    stop_flag,  \* bob_ross.py: stop_flag
    success,    \* bob_ross.py: what run_draw returned
    log,        \* bob_ross.py: the entries main and handle_stop have logged, in order
    spoken,     \* bob_ross.py: the messages speak() has spoken
    termSent,   \* _emergency_stop has called proc.terminate()
    lifted,     \* the pen lift of _emergency_stop: "no" (not reached), "written" or "failed"
    midDraw,    \* the stop signal arrived while run_draw was watching the subprocess
    fn_in,      \* the arguments of a function that is run on its own
    fn_out      \* what it returned, and via which function; via is "none" before the call

vars == <<job, pc, exitCode, todo, wire, sphase, returned, lastEnd, ownAck,
          drained, everOk, buf, rx, cin, queue, is_up, cur_x, cur_y, seg_i, txt_x,
          line_i, y_moved, mpc, no_voice, stop_flag, success, log, spoken,
          termSent, lifted, midDraw, sawStop, fn_in, fn_out>>

drvVars == <<sphase, returned, lastEnd, ownAck, drained, everOk, sawStop, buf, rx, cin,
            queue>>
penVars == <<is_up, cur_x, cur_y, seg_i, txt_x, line_i, y_moved>>
rossVars == <<mpc, no_voice, stop_flag, success, log, spoken, termSent, lifted, midDraw>>
fnVars == <<fn_in, fn_out>>

(***************************************************************************)
(* Bounds of the model.                                                    *)
(***************************************************************************)
\* lines the host may have given up on (timed out) that the controller has
\* neither consumed nor had its answer read
MaxBacklog == 2
\* capacity of the controller's motion queue
MaxQueue == 2

(***************************************************************************)
(* Arithmetic.                                                             *)
(***************************************************************************)
\* internal units per 0.001 mm, the resolution of "%.3f"
Sub == 10
\* scale of the tabulated cosines and sines, and of sqrt(3)/2
TrigScale == 10000
\* scale of tilt_slope: calibrate() saves round(tilt_slope, 5)
TiltScale == 100000

Abs(v) == IF v < 0 THEN -v ELSE v

Sgn(v) == IF v < 0 THEN -1 ELSE 1

\* n / q for n >= 0, rounded to the nearest integer, a tie to the even one
RoundPos(n, q) ==
    LET k == n \div q
        r == n % q
    IN  IF 2 * r > q THEN k + 1
        ELSE IF 2 * r < q THEN k
        ELSE IF k % 2 = 0 THEN k ELSE k + 1

Round(v, q) == Sgn(v) * RoundPos(Abs(v), q)

\* a * m / d rounded, without overflowing 32 bits for the lengths used here
MulDiv(a, m, d) ==
    Sgn(a) * Sgn(m) *
        ((Abs(a) \div d) * Abs(m) + RoundPos((Abs(a) % d) * Abs(m), d))

\* f"{v:.3f}": the number on the wire, in units of 0.001 mm
Fmt3(v) == Round(v, Sub)

\* f"{v:.2f}": the number on the wire, in units of 0.001 mm
Fmt2(v) == 10 * Round(v, 10 * Sub)

\* a length given in whole 0.001 mm, in internal units
Milli(m) == m * Sub

(***************************************************************************)
(* Program constants.                                                      *)
(***************************************************************************)
DRAW_FEED == 400
TRAVEL_FEED == 800
CIRCLE_SEGMENTS == 72

\* cos(2*pi*i/72) and sin(2*pi*i/72) for i = 1..72, times TrigScale
CosTab ==
  << 9962, 9848, 9659, 9397, 9063, 8660, 8192, 7660, 7071, 6428, 5736, 5000,
     4226, 3420, 2588, 1736, 872, 0, -872, -1736, -2588, -3420, -4226, -5000,
     -5736, -6428, -7071, -7660, -8192, -8660, -9063, -9397, -9659, -9848, -9962, -10000,
     -9962, -9848, -9659, -9397, -9063, -8660, -8192, -7660, -7071, -6428, -5736, -5000,
     -4226, -3420, -2588, -1736, -872, 0, 872, 1736, 2588, 3420, 4226, 5000,
     5736, 6428, 7071, 7660, 8192, 8660, 9063, 9397, 9659, 9848, 9962, 10000 >>

SinTab ==
  << 872, 1736, 2588, 3420, 4226, 5000, 5736, 6428, 7071, 7660, 8192, 8660,
     9063, 9397, 9659, 9848, 9962, 10000, 9962, 9848, 9659, 9397, 9063, 8660,
     8192, 7660, 7071, 6428, 5736, 5000, 4226, 3420, 2588, 1736, 872, 0,
     -872, -1736, -2588, -3420, -4226, -5000, -5736, -6428, -7071, -7660, -8192, -8660,
     -9063, -9397, -9659, -9848, -9962, -10000, -9962, -9848, -9659, -9397, -9063, -8660,
     -8192, -7660, -7071, -6428, -5736, -5000, -4226, -3420, -2588, -1736, -872, 0 >>

\* sqrt(3)/2 times TrigScale
Sqrt3Half == 8660

(***************************************************************************)
(* The lines of the wire protocol.  kind is the intent of the call that    *)
(* wrote the line; x, y, z are the numbers on the line in 0.001 mm.        *)
(***************************************************************************)
Cmd(op, kind, hasX, x, hasY, y, hasZ, z, f) ==
    [op |-> op, kind |-> kind, hasX |-> hasX, x |-> x, hasY |-> hasY, y |-> y,
     hasZ |-> hasZ, z |-> z, f |-> f]

G21 == Cmd("G21", "mode", FALSE, 0, FALSE, 0, FALSE, 0, 0)

G90 == Cmd("G90", "mode", FALSE, 0, FALSE, 0, FALSE, 0, 0)

G91 == Cmd("G91", "mode", FALSE, 0, FALSE, 0, FALSE, 0, 0)

M400 == Cmd("M400", "barrier", FALSE, 0, FALSE, 0, FALSE, 0, 0)

\* f"G1 Z{z:.2f} F{f}"
G1Z(kind, z, f) == Cmd("G1", kind, FALSE, 0, FALSE, 0, TRUE, Fmt2(z), f)

\* f"G1 X{x:.3f} Y{y:.3f}{z_comp} F{f}"
G1XY(kind, x, y, hasZ, z, f) == Cmd("G1", kind, TRUE, Fmt3(x), TRUE, Fmt3(y), hasZ, z, f)

\* f"G1 X{x:.3f} F{f}"
G1X(kind, x, f) == Cmd("G1", kind, TRUE, Fmt3(x), FALSE, 0, FALSE, 0, f)

\* f"G1 Y{y:.3f} F{f}"
G1Y(kind, y, f) == Cmd("G1", kind, FALSE, 0, TRUE, Fmt3(y), FALSE, 0, f)

\* GCodeIO.wait_motion: send("M400", wait_ok=True, timeout=30.0)
wait_motion == << M400 >>

(***************************************************************************)
(* huenit_draw.py: pen control, moves and shapes.  Each operator is the    *)
(* sequence of g.send calls the function makes.                            *)
(***************************************************************************)
pen_up(z_up) ==
    << G1Z("pen_up", z_up, TRAVEL_FEED) >> \o wait_motion

pen_down(z_up) ==
    << G1Z("pen_down", -z_up, TRAVEL_FEED) >> \o wait_motion

\* a compensation with a constant offset of 0.005 mm
TiltDz_offset(tilt, dy) == MulDiv(dy, tilt, TiltScale) + 5 * Sub

\* TILT_SLOPE * dy
TiltDz(tilt, dy) == MulDiv(dy, tilt, TiltScale)

\* a _z_comp computed from a dz that is 0.005 mm off
HasZComp_offset(tilt, dy) == Abs(TiltDz_offset(tilt, dy)) > Sub

\* _z_comp: is a Z word written, and its number
HasZComp(tilt, dy) == Abs(TiltDz(tilt, dy)) > Sub

ZComp(tilt, dy) == IF HasZComp(tilt, dy) THEN Fmt3(TiltDz(tilt, dy)) ELSE 0

move_to(tilt, x, y) ==
    << G1XY("travel", x, y, HasZComp(tilt, y), ZComp(tilt, y), TRAVEL_FEED) >>
        \o wait_motion

\* a draw_to that does not wait for the motion to complete
draw_to_nobarrier(tilt, x, y) ==
    << G1XY("draw", x, y, HasZComp(tilt, y), ZComp(tilt, y), DRAW_FEED) >>

draw_to(tilt, x, y) ==
    << G1XY("draw", x, y, HasZComp(tilt, y), ZComp(tilt, y), DRAW_FEED) >>
        \o wait_motion

\* a square whose third edge is as long as the first two together
draw_square_long_edge(z_up, tilt, size) ==
    pen_down(z_up)
        \o draw_to(tilt, size, 0)
        \o draw_to(tilt, 0, size)
        \o draw_to(tilt, -2 * size, 0)
        \o draw_to(tilt, size, -size)
        \o pen_up(z_up)

draw_square(z_up, tilt, size) ==
    pen_down(z_up)
        \o draw_to(tilt, size, 0)
        \o draw_to(tilt, 0, size)
        \o draw_to(tilt, -size, 0)
        \o draw_to(tilt, 0, -size)
        \o pen_up(z_up)

\* size / 2
Half(v) == Sgn(v) * RoundPos(Abs(v), 2)

\* a triangle whose last edge goes up instead of down
draw_triangle_open(z_up, tilt, size) ==
    LET h == MulDiv(size, Sqrt3Half, TrigScale)
    IN  pen_down(z_up)
            \o draw_to(tilt, size, 0)
            \o draw_to(tilt, -Half(size), h)
            \o draw_to(tilt, -Half(size), h)
            \o pen_up(z_up)

draw_triangle(z_up, tilt, size) ==
    LET h == MulDiv(size, Sqrt3Half, TrigScale)
    IN  pen_down(z_up)
            \o draw_to(tilt, size, 0)
            \o draw_to(tilt, -Half(size), h)
            \o draw_to(tilt, -Half(size), -h)
            \o pen_up(z_up)

\* the point (cx, cy) of draw_circle's iteration i; iteration 0 is (radius, 0)
CircleX(radius, i) == IF i = 0 THEN radius ELSE MulDiv(radius, CosTab[i], TrigScale)

CircleY(radius, i) == IF i = 0 THEN 0 ELSE MulDiv(radius, SinTab[i], TrigScale)

RECURSIVE CircleDraws(_, _, _)
CircleDraws(tilt, radius, i) ==
    IF i > CIRCLE_SEGMENTS THEN << >>
    ELSE draw_to(tilt, CircleX(radius, i) - CircleX(radius, i - 1),
                       CircleY(radius, i) - CircleY(radius, i - 1))
             \o CircleDraws(tilt, radius, i + 1)

\* a circle that returns to the center before it lifts the pen
draw_circle_late_lift(z_up, tilt, radius) ==
    move_to(tilt, radius, 0)
        \o pen_down(z_up)
        \o CircleDraws(tilt, radius, 1)
        \o move_to(tilt, -radius, 0)
        \o pen_up(z_up)

\* a circle traced from its second point on
draw_circle_skip_first(z_up, tilt, radius) ==
    move_to(tilt, radius, 0)
        \o pen_down(z_up)
        \o CircleDraws(tilt, radius, 2)
        \o pen_up(z_up)
        \o move_to(tilt, -radius, 0)

draw_circle(z_up, tilt, radius) ==
    move_to(tilt, radius, 0)
        \o pen_down(z_up)
        \o CircleDraws(tilt, radius, 1)
        \o pen_up(z_up)
        \o move_to(tilt, -radius, 0)

\* "size or default"
SizeOr(size, dflt) == IF size = 0 THEN dflt ELSE size

\* main: the branch of the command, for a known command
DrawBody(j) ==
    IF j.kind = "square" THEN
        LET s == SizeOr(j.size, Milli(30000))
        IN  move_to(j.tilt, -Half(s), -Half(s))
                \o draw_square(j.z_up, j.tilt, s)
                \o move_to(j.tilt, Half(s), Half(s))
    ELSE IF j.kind = "triangle" THEN
        LET s == SizeOr(j.size, Milli(30000))
        IN  move_to(j.tilt, -Half(s), 0)
                \o draw_triangle(j.z_up, j.tilt, s)
                \o move_to(j.tilt, Half(s), 0)
    ELSE IF j.kind = "demo" THEN
        LET s == SizeOr(j.size, Milli(25000))
            r == SizeOr(j.size, Milli(12000))
        IN  move_to(j.tilt, -Half(s), -Half(s))
                \o draw_square(j.z_up, j.tilt, s)
                \o move_to(j.tilt, Half(s) + Milli(35000), Half(s))
                \o move_to(j.tilt, -Half(s), 0)
                \o draw_triangle(j.z_up, j.tilt, s)
                \o move_to(j.tilt, Half(s) + Milli(35000), 0)
                \o draw_circle(j.z_up, j.tilt, r)
                \o move_to(j.tilt, -(Milli(70000) + r), 0)
    ELSE draw_circle(j.z_up, j.tilt, SizeOr(j.size, Milli(15000)))

ShapeKinds == {"square", "triangle", "circle"}

\* the commands of main that draw
DrawKinds == ShapeKinds \cup {"demo"}

(***************************************************************************)
(* GCodeIO and the controller at the other end of the serial line.         *)
(***************************************************************************)
\* OK_PAT.search(self.buf)
OkMatch(b) == b # << >>

\* the script's process exists: it was started and has neither exited nor
\* been killed
Alive == pc \notin {"unborn", "closed", "killed"}

\* a send that writes the line and returns without waiting for the 'ok'
SendWrite_nowait ==
    /\ sphase = "idle"
    /\ todo # << >>
    /\ Alive
    /\ wire' = Append(wire, Head(todo))
    /\ todo' = Tail(todo)
    /\ sawStop' = stop_flag
    /\ UNCHANGED <<job, pc, exitCode, sphase, returned, lastEnd, ownAck, drained,
                   everOk, buf, rx, cin, queue>>
    /\ UNCHANGED penVars
    /\ UNCHANGED rossVars
    /\ UNCHANGED fnVars

\* send: write the line, flush, enter the poll loop (every call has wait_ok=True)
SendWrite ==
    /\ sphase = "idle"
    /\ todo # << >>
    /\ Alive
    /\ wire' = Append(wire, Head(todo))
    /\ todo' = Tail(todo)
    /\ sawStop' = stop_flag
    /\ sphase' = "wait"
    /\ UNCHANGED <<job, pc, exitCode, returned, lastEnd, ownAck, drained,
                   everOk, buf, rx, cin, queue>>
    /\ UNCHANGED penVars
    /\ UNCHANGED rossVars
    /\ UNCHANGED fnVars

\* send: a poll iteration finds 'ok' in buf, clears buf and returns
PollOk ==
    /\ Alive
    /\ sphase = "wait"
    /\ OkMatch(buf)
    /\ buf' = << >>
    /\ ownAck' = (\E k \in 1..Len(buf) : buf[k] = Len(wire))
    /\ sphase' = "idle"
    /\ returned' = returned + 1
    /\ lastEnd' = "ok"
    /\ drained' = (queue = 0 /\ cin = Len(wire))
    /\ everOk' = TRUE
    /\ UNCHANGED sawStop
    /\ UNCHANGED <<job, pc, exitCode, todo, wire, rx, cin, queue>>
    /\ UNCHANGED penVars
    /\ UNCHANGED rossVars
    /\ UNCHANGED fnVars

\* a send that raises when its timeout elapses, which unwinds main to its
\* finally block with a failure exit code
PollTimeout_raise ==
    /\ Alive
    /\ sphase = "wait"
    /\ ~OkMatch(buf)
    /\ (Len(wire) - cin) + Len(rx) <= MaxBacklog
    /\ sphase' = "idle"
    /\ returned' = returned + 1
    /\ lastEnd' = "timeout"
    /\ drained' = (queue = 0 /\ cin = Len(wire))
    /\ pc' = "finally"
    /\ todo' = << G90 >>
    /\ exitCode' = 1
    /\ ownAck' = FALSE
    /\ UNCHANGED <<job, wire, everOk, sawStop, buf, rx, cin, queue>>
    /\ UNCHANGED penVars
    /\ UNCHANGED rossVars
    /\ UNCHANGED fnVars

\* send: the timeout elapses with no 'ok' in buf; a warning is printed and
\* the call returns
PollTimeout ==
    /\ Alive
    /\ sphase = "wait"
    /\ ~OkMatch(buf)
    /\ (Len(wire) - cin) + Len(rx) <= MaxBacklog
    /\ sphase' = "idle"
    /\ returned' = returned + 1
    /\ lastEnd' = "timeout"
    /\ drained' = (queue = 0 /\ cin = Len(wire))
    /\ ownAck' = FALSE
    /\ UNCHANGED <<job, pc, exitCode, todo, wire, everOk, sawStop, buf, rx, cin, queue>>
    /\ UNCHANGED penVars
    /\ UNCHANGED rossVars
    /\ UNCHANGED fnVars

\* _rx_loop: read what has arrived and append it to buf
RxLoop ==
    /\ Alive
    /\ rx # << >>
    /\ buf' = buf \o rx
    /\ rx' = << >>
    /\ UNCHANGED <<job, pc, exitCode, todo, wire, sphase, returned, lastEnd,
                   ownAck, drained, everOk, sawStop, cin, queue>>
    /\ UNCHANGED penVars
    /\ UNCHANGED rossVars
    /\ UNCHANGED fnVars

\* the controller consumes its next line and answers 'ok': a G1 is queued,
\* M400 is answered once the queue is empty
CtrlProcess ==
    /\ cin < Len(wire)
    /\ LET c == wire[cin + 1]
       IN  /\ c.op = "M400" => queue = 0
           /\ c.op = "G1" => queue < MaxQueue
           /\ queue' = IF c.op = "G1" THEN queue + 1 ELSE queue
    /\ cin' = cin + 1
    /\ rx' = Append(rx, cin + 1)
    /\ UNCHANGED <<job, pc, exitCode, todo, wire, sphase, returned, lastEnd,
                   ownAck, drained, everOk, sawStop, buf>>
    /\ UNCHANGED penVars
    /\ UNCHANGED rossVars
    /\ UNCHANGED fnVars

\* an 'ok' is garbled on the line: what _rx_loop reads holds no 'ok'
AckLost ==
    /\ rx # << >>
    /\ rx' = Tail(rx)
    /\ UNCHANGED <<job, pc, exitCode, todo, wire, sphase, returned, lastEnd,
                   ownAck, drained, everOk, sawStop, buf, cin, queue>>
    /\ UNCHANGED penVars
    /\ UNCHANGED rossVars
    /\ UNCHANGED fnVars

\* the controller finishes executing a queued motion
CtrlExec ==
    /\ queue > 0
    /\ queue' = queue - 1
    /\ UNCHANGED <<job, pc, exitCode, todo, wire, sphase, returned, lastEnd,
                   ownAck, drained, everOk, sawStop, buf, rx, cin>>
    /\ UNCHANGED penVars
    /\ UNCHANGED rossVars
    /\ UNCHANGED fnVars

\* the running function has made all its send calls and the last has returned
CallDone == todo = << >> /\ sphase = "idle"

(***************************************************************************)
(* huenit_draw.py main.                                                    *)
(***************************************************************************)
\* g = GCodeIO(PORT, BAUD); g.send("G21"); g.send("G91")
DrawMainOpen ==
    /\ pc = "start"
    /\ job.kind \in DrawKinds \cup {"unknown"}
    /\ pc' = "setup"
    /\ todo' = << G21, G91 >>
    /\ UNCHANGED <<job, exitCode, wire>>
    /\ UNCHANGED drvVars
    /\ UNCHANGED penVars
    /\ UNCHANGED rossVars
    /\ UNCHANGED fnVars

\* a main without check_ready()
DrawMainBody_unchecked ==
    /\ pc = "setup"
    /\ job.kind \in DrawKinds \cup {"unknown"}
    /\ CallDone
    /\ IF job.kind \in DrawKinds
       THEN /\ todo' = DrawBody(job)
            /\ pc' = "body"
            /\ UNCHANGED exitCode
       ELSE /\ todo' = << G90 >>
            /\ pc' = "finally"
            /\ exitCode' = 1
    /\ UNCHANGED <<job, wire>>
    /\ UNCHANGED drvVars
    /\ UNCHANGED penVars
    /\ UNCHANGED rossVars
    /\ UNCHANGED fnVars

\* check_ready(); load_calibration(); the command's branch
DrawMainBody ==
    /\ pc = "setup"
    /\ job.kind \in DrawKinds \cup {"unknown"}
    /\ CallDone
    /\ IF job.ready /\ job.kind \in DrawKinds
       THEN /\ todo' = DrawBody(job)
            /\ pc' = "body"
            /\ UNCHANGED exitCode
       ELSE \* sys.exit(1) inside the try block
            /\ todo' = << G90 >>
            /\ pc' = "finally"
            /\ exitCode' = 1
    /\ UNCHANGED <<job, wire>>
    /\ UNCHANGED drvVars
    /\ UNCHANGED penVars
    /\ UNCHANGED rossVars
    /\ UNCHANGED fnVars

\* a main whose finally block only closes the port
DrawMainFinally_no_restore ==
    /\ pc = "body"
    /\ job.kind \in DrawKinds
    /\ CallDone
    /\ todo' = << >>
    /\ pc' = "finally"
    /\ exitCode' = 0
    /\ UNCHANGED <<job, wire>>
    /\ UNCHANGED drvVars
    /\ UNCHANGED penVars
    /\ UNCHANGED rossVars
    /\ UNCHANGED fnVars

\* finally: g.send("G90")
DrawMainFinally ==
    /\ pc = "body"
    /\ job.kind \in DrawKinds
    /\ CallDone
    /\ todo' = << G90 >>
    /\ pc' = "finally"
    /\ exitCode' = 0
    /\ UNCHANGED <<job, wire>>
    /\ UNCHANGED drvVars
    /\ UNCHANGED penVars
    /\ UNCHANGED rossVars
    /\ UNCHANGED fnVars

\* finally: g.close(), and the script exits
MainClose ==
    /\ pc = "finally"
    /\ CallDone
    /\ pc' = "closed"
    /\ UNCHANGED <<job, exitCode, todo, wire>>
    /\ UNCHANGED drvVars
    /\ UNCHANGED penVars
    /\ UNCHANGED rossVars
    /\ UNCHANGED fnVars

(***************************************************************************)
(* huenit_svg.py: draw_segments and main.  job.segs is the list main hands *)
(* to draw_segments: the result of transform_segments.                     *)
(***************************************************************************)
\* abs(dx) > 0.01 or abs(dy) > 0.01
Beyond(dx, dy) == Abs(dx) > Milli(10) \/ Abs(dy) > Milli(10)

\* the relative move of draw_segments, with its tilt compensation, and the
\* barrier wait that follows it
SegMove(kind, tilt, dx, dy, feed) ==
    IF Beyond(dx, dy)
    THEN << G1XY(kind, dx, dy, HasZComp(tilt, dy), ZComp(tilt, dy), feed) >> \o wait_motion
    ELSE << >>

\* an iteration that lowers the pen for a 'line' only after the move
SegCmds_late_down(seg, up, x0, y0, z_up, tilt, feed) ==
    LET dx == seg.x - x0
        dy == seg.y - y0
    IN  IF seg.kind = "move"
        THEN (IF ~up THEN pen_up(z_up) ELSE << >>)
                 \o SegMove("travel", tilt, dx, dy, TRAVEL_FEED)
        ELSE SegMove("draw", tilt, dx, dy, feed)
                 \o (IF up THEN pen_down(z_up) ELSE << >>)

\* the g.send calls of one iteration of draw_segments' loop
SegCmds(seg, up, x0, y0, z_up, tilt, feed) ==
    LET dx == seg.x - x0
        dy == seg.y - y0
    IN  IF seg.kind = "move"
        THEN (IF ~up THEN pen_up(z_up) ELSE << >>)
                 \o SegMove("travel", tilt, dx, dy, TRAVEL_FEED)
        ELSE (IF up THEN pen_down(z_up) ELSE << >>)
                 \o SegMove("draw", tilt, dx, dy, feed)

\* one iteration of "for kind, x, y in segments"
SegStep ==
    /\ pc = "body"
    /\ job.kind = "svg"
    /\ CallDone
    /\ seg_i < Len(job.segs)
    /\ LET seg == job.segs[seg_i + 1]
       IN  /\ todo' = SegCmds(seg, is_up, cur_x, cur_y, job.z_up, job.tilt, job.feed)
           /\ is_up' = (seg.kind = "move")
           /\ cur_x' = seg.x
           /\ cur_y' = seg.y
    /\ seg_i' = seg_i + 1
    /\ UNCHANGED <<job, pc, exitCode, wire, txt_x, line_i, y_moved>>
    /\ UNCHANGED drvVars
    /\ UNCHANGED rossVars
    /\ UNCHANGED fnVars

\* after the loop: lift the pen, return to the center (0, 0)
SegFinish ==
    /\ pc = "body"
    /\ job.kind = "svg"
    /\ CallDone
    /\ seg_i = Len(job.segs)
    /\ todo' = (IF ~is_up THEN pen_up(job.z_up) ELSE << >>)
                   \o SegMove("travel", job.tilt, -cur_x, -cur_y, TRAVEL_FEED)
    /\ pc' = "tail"
    /\ UNCHANGED <<job, exitCode, wire>>
    /\ UNCHANGED drvVars
    /\ UNCHANGED penVars
    /\ UNCHANGED rossVars
    /\ UNCHANGED fnVars

\* main: check_ready() comes before the port is opened
SvgMainOpen ==
    /\ pc = "start"
    /\ job.kind = "svg"
    /\ IF job.ready
       THEN /\ pc' = "setup"
            /\ todo' = << G21, G91 >>
            /\ UNCHANGED exitCode
       ELSE /\ pc' = "closed"
            /\ exitCode' = 1
            /\ UNCHANGED todo
    /\ UNCHANGED <<job, wire>>
    /\ UNCHANGED drvVars
    /\ UNCHANGED penVars
    /\ UNCHANGED rossVars
    /\ UNCHANGED fnVars

\* main: draw_segments(g, segments, Z_UP, args.feed) starts
SvgMainBody ==
    /\ pc = "setup"
    /\ job.kind = "svg"
    /\ CallDone
    /\ pc' = "body"
    /\ is_up' = TRUE
    /\ cur_x' = 0
    /\ cur_y' = 0
    /\ seg_i' = 0
    /\ UNCHANGED <<job, exitCode, todo, wire, txt_x, line_i, y_moved>>
    /\ UNCHANGED drvVars
    /\ UNCHANGED rossVars
    /\ UNCHANGED fnVars

\* main: draw_segments has returned; finally: g.send("G90")
SvgMainFinally ==
    /\ pc = "tail"
    /\ job.kind = "svg"
    /\ CallDone
    /\ todo' = << G90 >>
    /\ pc' = "finally"
    /\ exitCode' = 0
    /\ UNCHANGED <<job, wire>>
    /\ UNCHANGED drvVars
    /\ UNCHANGED penVars
    /\ UNCHANGED rossVars
    /\ UNCHANGED fnVars

(***************************************************************************)
(* huenit_write.py: the stroke font, Pen, render_text and main.            *)
(* Glyph coordinates and widths are hundredths and tenths of the letter    *)
(* height.  The model carries the glyphs A, I, M, '-', '.' and the space;  *)
(* "#" stands for any character the font has no entry for.                 *)
(***************************************************************************)
Pt(x, y) == [x |-> x, y |-> y]

HasGlyph(ch) == ch \in {"A", "I", "M", "-", ".", " "}

FONT(ch) ==
    CASE ch = "A" -> << << Pt(0, 0), Pt(50, 100), Pt(100, 0) >>,
                        << Pt(20, 40), Pt(80, 40) >> >>
      [] ch = "I" -> << << Pt(20, 0), Pt(60, 0) >>,
                        << Pt(40, 0), Pt(40, 100) >>,
                        << Pt(20, 100), Pt(60, 100) >> >>
      [] ch = "M" -> << << Pt(0, 0), Pt(0, 100), Pt(50, 50), Pt(100, 100), Pt(100, 0) >> >>
      [] ch = "-" -> << << Pt(10, 50), Pt(60, 50) >> >>
      [] ch = "." -> << << Pt(20, 5), Pt(20, 0), Pt(30, 0), Pt(30, 5), Pt(20, 5) >> >>
      [] OTHER -> << >>

\* the normalized width of a character, in tenths
get_letter_width(ch) ==
    IF ch = " " THEN 5
    ELSE IF ch \in {"I", "!", ".", "1"} THEN 6
    ELSE IF ch \in {"M", "W"} THEN 10
    ELSE 9

RECURSIVE WidthSum(_, _, _, _)
WidthSum(text, k, size, spacing) ==
    IF k > Len(text) THEN 0
    ELSE MulDiv(size, get_letter_width(text[k]), 10) + spacing
             + WidthSum(text, k + 1, size, spacing)

\* calculate_text_width without "if text: total -= spacing"
calculate_text_width_trailing(text, size, spacing) ==
    WidthSum(text, 1, size, spacing)

calculate_text_width(text, size, spacing) ==
    WidthSum(text, 1, size, spacing) - (IF text # << >> THEN spacing ELSE 0)

\* a Pen.up that lifts whether the pen is up or not
Pen_up_always(p, z_up) ==
    [p EXCEPT !.out = @ \o << G1Z("pen_up", z_up, TRAVEL_FEED) >> \o wait_motion,
              !.up = TRUE]

\* a Pen with the g.send calls it has made: [up, x, y, out]
Pen_up(p, z_up) ==
    IF ~p.up
    THEN [p EXCEPT !.out = @ \o << G1Z("pen_up", z_up, TRAVEL_FEED) >> \o wait_motion,
                   !.up = TRUE]
    ELSE p

Pen_down(p, z_up) ==
    IF p.up
    THEN [p EXCEPT !.out = @ \o << G1Z("pen_down", -z_up, TRAVEL_FEED) >> \o wait_motion,
                   !.up = FALSE]
    ELSE p

\* the body shared by move_to_abs and draw_to_abs
PenGoAbs(p, kind, x, y, feed) ==
    LET dx == x - p.x
        dy == y - p.y
    IN  [p EXCEPT !.out = IF Beyond(dx, dy)
                          THEN @ \o << G1XY(kind, dx, dy, FALSE, 0, feed) >> \o wait_motion
                          ELSE @,
                  !.x = x,
                  !.y = y]

Pen_move_to_abs(p, x, y) == PenGoAbs(p, "travel", x, y, TRAVEL_FEED)

Pen_draw_to_abs(p, x, y, feed) == PenGoAbs(p, "draw", x, y, feed)

\* px * size
Scaled(size, hundredths) == MulDiv(size, hundredths, 100)

\* "for px, py in stroke[1:]: pen.draw_to_abs(...)"
RECURSIVE DrawPoints(_, _, _, _, _, _)
DrawPoints(p, stroke, k, cx, size, feed) ==
    IF k > Len(stroke) THEN p
    ELSE DrawPoints(Pen_draw_to_abs(p, cx + Scaled(size, stroke[k].x),
                                    Scaled(size, stroke[k].y), feed),
                    stroke, k + 1, cx, size, feed)

\* one iteration of "for stroke in strokes"
RenderStroke(p, stroke, cx, size, z_up, feed) ==
    IF Len(stroke) < 2 THEN p
    ELSE LET raised == Pen_up(p, z_up)
             there  == Pen_move_to_abs(raised, cx + Scaled(size, stroke[1].x),
                                       Scaled(size, stroke[1].y))
             down   == Pen_down(there, z_up)
         IN  DrawPoints(down, stroke, 2, cx, size, feed)

RECURSIVE RenderStrokes(_, _, _, _, _, _, _)
RenderStrokes(p, strokes, k, cx, size, z_up, feed) ==
    IF k > Len(strokes) THEN p
    ELSE RenderStrokes(RenderStroke(p, strokes[k], cx, size, z_up, feed),
                       strokes, k + 1, cx, size, z_up, feed)

\* the strokes of one glyph, then pen.up()
RenderGlyph(p, ch, cx, size, z_up, feed) ==
    Pen_up(RenderStrokes(p, FONT(ch), 1, cx, size, z_up, feed), z_up)

\* render_text advancing over a character without a glyph by the width
\* get_letter_width gives it
Advance_by_letter_width(ch, size, spacing) ==
    MulDiv(size, get_letter_width(ch), 10) + spacing

\* how far render_text advances its cursor_x over a character
Advance(ch, size, spacing) ==
    IF ~HasGlyph(ch) THEN MulDiv(size, 5, 10) + spacing
    ELSE MulDiv(size, get_letter_width(ch), 10) + spacing

\* "not line.strip()"
IsBlank(line) == \A k \in 1..Len(line) : line[k] = " "

CurLine == job.lines[line_i + 1]

CurPen == [up |-> is_up, x |-> cur_x, y |-> cur_y, out |-> << >>]

line_height == MulDiv(job.size, job.lsp, 10)

\* "if i < len(lines) - 1": advance to the next line
LineFeed ==
    IF line_i + 1 < Len(job.lines)
    THEN << G1Y("travel", -line_height, TRAVEL_FEED) >> \o wait_motion
    ELSE << >>

\* main: check_ready() comes before the port is opened
WriteMainOpen ==
    /\ pc = "start"
    /\ job.kind = "text"
    /\ IF job.ready
       THEN /\ pc' = "setup"
            /\ todo' = << G21, G91 >>
            /\ UNCHANGED exitCode
       ELSE /\ pc' = "closed"
            /\ exitCode' = 1
            /\ UNCHANGED todo
    /\ UNCHANGED <<job, wire>>
    /\ UNCHANGED drvVars
    /\ UNCHANGED penVars
    /\ UNCHANGED rossVars
    /\ UNCHANGED fnVars

\* main: total_y_moved = 0.0, and the loop over the lines starts
WriteMainBody ==
    /\ pc = "setup"
    /\ job.kind = "text"
    /\ CallDone
    /\ pc' = "line"
    /\ line_i' = 0
    /\ y_moved' = 0
    /\ UNCHANGED <<job, exitCode, todo, wire, is_up, cur_x, cur_y, seg_i, txt_x>>
    /\ UNCHANGED drvVars
    /\ UNCHANGED rossVars
    /\ UNCHANGED fnVars

\* main: an empty line only advances vertically
WriteBlankLine ==
    /\ pc = "line"
    /\ job.kind = "text"
    /\ CallDone
    /\ line_i < Len(job.lines)
    /\ IsBlank(CurLine)
    /\ todo' = LineFeed
    /\ y_moved' = IF line_i + 1 < Len(job.lines) THEN y_moved + line_height ELSE y_moved
    /\ line_i' = line_i + 1
    /\ UNCHANGED <<job, pc, exitCode, wire, is_up, cur_x, cur_y, seg_i, txt_x>>
    /\ UNCHANGED drvVars
    /\ UNCHANGED rossVars
    /\ UNCHANGED fnVars

\* main: shift left by half the line's width, make the Pen, enter render_text
WriteLineStart ==
    /\ pc = "line"
    /\ job.kind = "text"
    /\ CallDone
    /\ line_i < Len(job.lines)
    /\ ~IsBlank(CurLine)
    /\ LET offset == Half(calculate_text_width(CurLine, job.size, job.spacing))
       IN  todo' = << G1X("travel", -offset, TRAVEL_FEED) >> \o wait_motion
    /\ is_up' = TRUE
    /\ cur_x' = 0
    /\ cur_y' = 0
    /\ txt_x' = 0
    /\ seg_i' = 0
    /\ pc' = "chars"
    /\ UNCHANGED <<job, exitCode, wire, line_i, y_moved>>
    /\ UNCHANGED drvVars
    /\ UNCHANGED rossVars
    /\ UNCHANGED fnVars

\* render_text: one iteration of "for ch in text"
RenderChar ==
    /\ pc = "chars"
    /\ job.kind = "text"
    /\ CallDone
    /\ seg_i < Len(CurLine)
    /\ LET ch == CurLine[seg_i + 1]
           p  == IF HasGlyph(ch) /\ FONT(ch) # << >>
                 THEN RenderGlyph(CurPen, ch, txt_x, job.size, job.z_up, job.feed)
                 ELSE CurPen
       IN  /\ todo' = p.out
           /\ is_up' = p.up
           /\ cur_x' = p.x
           /\ cur_y' = p.y
           /\ txt_x' = txt_x + Advance(ch, job.size, job.spacing)
    /\ seg_i' = seg_i + 1
    /\ UNCHANGED <<job, pc, exitCode, wire, line_i, y_moved>>
    /\ UNCHANGED drvVars
    /\ UNCHANGED rossVars
    /\ UNCHANGED fnVars

\* render_text returns to its start; main: pen.up(), shift back right, line feed
RenderEnd ==
    /\ pc = "chars"
    /\ job.kind = "text"
    /\ CallDone
    /\ seg_i = Len(CurLine)
    /\ LET offset == Half(calculate_text_width(CurLine, job.size, job.spacing))
           p      == Pen_up(Pen_move_to_abs(CurPen, 0, 0), job.z_up)
       IN  /\ todo' = p.out \o << G1X("travel", offset, TRAVEL_FEED) >> \o wait_motion
                          \o LineFeed
           /\ is_up' = p.up
           /\ cur_x' = p.x
           /\ cur_y' = p.y
    /\ y_moved' = IF line_i + 1 < Len(job.lines) THEN y_moved + line_height ELSE y_moved
    /\ line_i' = line_i + 1
    /\ pc' = "line"
    /\ UNCHANGED <<job, exitCode, wire, seg_i, txt_x>>
    /\ UNCHANGED drvVars
    /\ UNCHANGED rossVars
    /\ UNCHANGED fnVars

\* main, after the loop: return to the original Y position
WriteFinish ==
    /\ pc = "line"
    /\ job.kind = "text"
    /\ CallDone
    /\ line_i = Len(job.lines)
    /\ todo' = IF y_moved > 0
               THEN << G1Y("travel", y_moved, TRAVEL_FEED) >> \o wait_motion
               ELSE << >>
    /\ pc' = "tail"
    /\ UNCHANGED <<job, exitCode, wire>>
    /\ UNCHANGED drvVars
    /\ UNCHANGED penVars
    /\ UNCHANGED rossVars
    /\ UNCHANGED fnVars

\* finally: g.send("G90")
WriteMainFinally ==
    /\ pc = "tail"
    /\ job.kind = "text"
    /\ CallDone
    /\ todo' = << G90 >>
    /\ pc' = "finally"
    /\ exitCode' = 0
    /\ UNCHANGED <<job, wire>>
    /\ UNCHANGED drvVars
    /\ UNCHANGED penVars
    /\ UNCHANGED rossVars
    /\ UNCHANGED fnVars

(***************************************************************************)
(* Jobs.                                                                   *)
(***************************************************************************)
NoSegs == << >>

NoLines == << >>

Seg(kind, x, y) == [kind |-> kind, x |-> x, y |-> y]

ShapeJob(kind, size, tilt, ready) ==
    [kind |-> kind, size |-> size, z_up |-> 50000, tilt |-> tilt, ready |-> ready,
     segs |-> NoSegs, feed |-> DRAW_FEED, lines |-> NoLines, spacing |-> 0, lsp |-> 15]

SvgJob(segs, tilt, ready) ==
    [kind |-> "svg", size |-> 0, z_up |-> 60000, tilt |-> tilt, ready |-> ready,
     segs |-> segs, feed |-> 250, lines |-> NoLines, spacing |-> 0, lsp |-> 15]

\* tilt is the tilt_slope of calibration.json, of which huenit_write.py reads
\* z_up only
TextJob(lines, size, ready) ==
    [kind |-> "text", size |-> size, z_up |-> 30000, tilt |-> 2500, ready |-> ready,
     segs |-> NoSegs, feed |-> DRAW_FEED, lines |-> lines, spacing |-> 20000, lsp |-> 15]

\* sizes given on the command line, in internal units; 0 stands for "no size".
\* None puts a coordinate half way between two values of the wire.
ShapeSizes == {0, 12, 20006, 20014, 150000, -70013}

ShapeJobs ==
    { ShapeJob(k, s, t, r) : k \in ShapeKinds \cup {"unknown"}, s \in ShapeSizes,
                             t \in {0, 2500}, r \in BOOLEAN }

\* a few lists of segments as transform_segments returns them
SomeSegs ==
    { << >>,
      << Seg("move", -400000, 200000), Seg("line", 400000, 200000),
         Seg("line", 400000, -200000), Seg("move", 0, 0), Seg("line", 80, 0) >>,
      << Seg("line", 100004, -50016), Seg("line", 100094, -50016) >> }

\* a few texts
SomeLines ==
    { << <<"A">> >>,
      << <<"I", "#">>, << >>, <<"-", " ", ".">> >> }

\* the jobs run against a controller that may answer late or not at all
ProtoJobs ==
    { ShapeJob(k, 0, 2500, r) : k \in {"square", "triangle", "unknown"}, r \in BOOLEAN }
        \cup { SvgJob(g, 2500, r) : g \in SomeSegs, r \in BOOLEAN }
        \cup { ShapeJob("circle", 20006, 0, TRUE) }
        \cup { TextJob(l, 100000, r) : l \in SomeLines, r \in BOOLEAN }

DrvInit ==
    /\ sphase = "idle"
    /\ returned = 0
    /\ lastEnd = "none"
    /\ ownAck = FALSE
    /\ drained = TRUE
    /\ everOk = FALSE
    /\ sawStop = FALSE
    /\ buf = << >>
    /\ rx = << >>
    /\ cin = 0
    /\ queue = 0

PenInit ==
    /\ is_up = TRUE
    /\ cur_x = 0
    /\ cur_y = 0
    /\ seg_i = 0
    /\ txt_x = 0
    /\ line_i = 0
    /\ y_moved = 0

\* the drawing script is run on its own, bob_ross.py is not involved
NoRoss ==
    /\ mpc = "none"
    /\ no_voice = FALSE
    /\ stop_flag = FALSE
    /\ success = FALSE
    /\ log = << >>
    /\ spoken = {}
    /\ termSent = FALSE
    /\ lifted = "no"
    /\ midDraw = FALSE

\* no function has been called on its own
NoCall == [via |-> "none"]

\* no function is run on its own
NoFn ==
    /\ fn_in = << >>
    /\ fn_out = NoCall

JobInit ==
    /\ pc = "start"
    /\ exitCode = -1
    /\ todo = << >>
    /\ wire = << >>
    /\ DrvInit
    /\ PenInit
    /\ NoRoss
    /\ NoFn

\* GCodeIO.send with a controller that may be late, and acks that may be lost
Driver ==
    \/ SendWrite
    \/ PollOk
    \/ PollTimeout
    \/ RxLoop
    \/ AckLost
    \/ CtrlProcess
    \/ CtrlExec

\* GCodeIO.send with a controller that answers every line in time
PromptDriver ==
    \/ SendWrite
    \/ PollOk
    \/ RxLoop
    \/ CtrlProcess
    \/ CtrlExec

DrawMain ==
    \/ DrawMainOpen
    \/ DrawMainBody
    \/ DrawMainFinally
    \/ MainClose

SvgMain ==
    \/ SvgMainOpen
    \/ SvgMainBody
    \/ SegStep
    \/ SegFinish
    \/ SvgMainFinally
    \/ MainClose

WriteMain ==
    \/ WriteMainOpen
    \/ WriteMainBody
    \/ WriteBlankLine
    \/ WriteLineStart
    \/ RenderChar
    \/ RenderEnd
    \/ WriteFinish
    \/ WriteMainFinally
    \/ MainClose

(***************************************************************************)
(* Spec: every drawing script over an unreliable controller.               *)
(***************************************************************************)
Init ==
    /\ job \in ProtoJobs
    /\ JobInit

Next ==
    \/ DrawMain
    \/ SvgMain
    \/ WriteMain
    \/ Driver

Spec == Init /\ [][Next]_vars

(***************************************************************************)
(* SpecShapes: huenit_draw.py for every shape and size.                    *)
(***************************************************************************)
InitShapes ==
    /\ job \in ShapeJobs
    /\ JobInit

NextShapes ==
    \/ DrawMain
    \/ PromptDriver

SpecShapes == InitShapes /\ [][NextShapes]_vars

(***************************************************************************)
(* SpecSvg: huenit_svg.py for every list of up to MaxSegs segments over    *)
(* SegPoints.                                                              *)
(***************************************************************************)
MaxSegs == 3

\* the points the segments go to: the origin, two points 0.008 mm apart next
\* to it, and a far point off the 0.001 mm grid
SegPoints == { <<0, 0>>, <<80, 0>>, <<160, 0>>, <<100004, -50016>> }

SegSet == { Seg(k, p[1], p[2]) : k \in {"move", "line"}, p \in SegPoints }

SegLists == UNION { [1..n -> SegSet] : n \in 0..MaxSegs }

InitSvg ==
    /\ job \in { SvgJob(g, 2500, r) : g \in SegLists, r \in BOOLEAN }
    /\ JobInit

NextSvg ==
    \/ SvgMain
    \/ PromptDriver

SpecSvg == InitSvg /\ [][NextSvg]_vars

(***************************************************************************)
(* bob_ross.py: main, run_draw, _emergency_stop and the signal handler,    *)
(* from JOB START on.  The drawing script is the subprocess run_draw       *)
(* starts; it and _emergency_stop write to the same serial port.           *)
(***************************************************************************)
scriptVars == <<job, pc, exitCode, todo, wire>>

Logged(entry) == \E k \in 1..Len(log) : log[k] = entry

\* handle_stop: log, set stop_flag.  Python runs it in the main thread between
\* two bytecodes of main, whatever main is doing.  A further signal would
\* only log again.
handle_stop ==
    /\ mpc \notin {"none", "returned", "crashed"}
    /\ ~stop_flag
    /\ log' = Append(log, "STOP signal received")
    /\ stop_flag' = TRUE
    /\ midDraw' = (mpc \in {"poll", "flag"})
    /\ UNCHANGED <<mpc, no_voice, success, spoken, termSent, lifted>>
    /\ UNCHANGED scriptVars
    /\ UNCHANGED drvVars
    /\ UNCHANGED penVars
    /\ UNCHANGED fnVars

\* main: the narration is ready; "if stop_flag.is_set(): return"
MainNarration ==
    /\ mpc = "narration"
    /\ IF stop_flag
       THEN mpc' = "returned" /\ UNCHANGED log
       ELSE mpc' = "tone" /\ log' = Append(log, "WARNING TONE")
    /\ UNCHANGED <<no_voice, stop_flag, success, spoken, termSent, lifted, midDraw>>
    /\ UNCHANGED scriptVars
    /\ UNCHANGED drvVars
    /\ UNCHANGED penVars
    /\ UNCHANGED fnVars

\* main: warning_tone() is over; the check that follows it
MainTone ==
    /\ mpc = "tone"
    /\ IF stop_flag
       THEN mpc' = "returned" /\ log' = Append(log, "STOP aborted during warning tone")
       ELSE mpc' = "intro" /\ UNCHANGED log
    /\ UNCHANGED <<no_voice, stop_flag, success, spoken, termSent, lifted, midDraw>>
    /\ UNCHANGED scriptVars
    /\ UNCHANGED drvVars
    /\ UNCHANGED penVars
    /\ UNCHANGED fnVars

\* main: the intro; speak() says nothing once stop_flag is set
MainIntro ==
    /\ mpc = "intro"
    /\ mpc' = "intro_check"
    /\ IF no_voice
       THEN UNCHANGED <<log, spoken>>
       ELSE /\ log' = Append(log, "VOICE INTRO")
            /\ spoken' = IF stop_flag THEN spoken ELSE spoken \cup {"intro"}
    /\ UNCHANGED <<no_voice, stop_flag, success, termSent, lifted, midDraw>>
    /\ UNCHANGED scriptVars
    /\ UNCHANGED drvVars
    /\ UNCHANGED penVars
    /\ UNCHANGED fnVars

\* main: the check after the intro, then DRAW START
MainIntroCheck ==
    /\ mpc = "intro_check"
    /\ IF stop_flag
       THEN mpc' = "returned" /\ log' = Append(log, "STOP aborted during intro")
       ELSE mpc' = "popen" /\ log' = Append(log, "DRAW START")
    /\ UNCHANGED <<no_voice, stop_flag, success, spoken, termSent, lifted, midDraw>>
    /\ UNCHANGED scriptVars
    /\ UNCHANGED drvVars
    /\ UNCHANGED penVars
    /\ UNCHANGED fnVars

\* run_draw: subprocess.Popen(cmd)
RunDrawPopen ==
    /\ mpc = "popen"
    /\ pc = "unborn"
    /\ pc' = "start"
    /\ mpc' = "poll"
    /\ UNCHANGED <<job, exitCode, todo, wire>>
    /\ UNCHANGED <<no_voice, stop_flag, success, log, spoken, termSent, lifted, midDraw>>
    /\ UNCHANGED drvVars
    /\ UNCHANGED penVars
    /\ UNCHANGED fnVars

\* run_draw: "while _draw_proc.poll() is None", and past the loop
\* "return _draw_proc.returncode == 0"
RunDrawPoll ==
    /\ mpc = "poll"
    /\ IF pc = "closed"
       THEN mpc' = "drawn" /\ success' = (exitCode = 0)
       ELSE mpc' = "flag" /\ UNCHANGED success
    /\ UNCHANGED <<no_voice, stop_flag, log, spoken, termSent, lifted, midDraw>>
    /\ UNCHANGED scriptVars
    /\ UNCHANGED drvVars
    /\ UNCHANGED penVars
    /\ UNCHANGED fnVars

\* run_draw: "if stop_flag.is_set(): _emergency_stop(); return False", else
\* sleep and poll again
RunDrawFlag ==
    /\ mpc = "flag"
    /\ mpc' = IF stop_flag THEN "estop" ELSE "poll"
    /\ UNCHANGED <<no_voice, stop_flag, success, log, spoken, termSent, lifted, midDraw>>
    /\ UNCHANGED scriptVars
    /\ UNCHANGED drvVars
    /\ UNCHANGED penVars
    /\ UNCHANGED fnVars

\* _emergency_stop: "if proc and proc.poll() is None: proc.terminate()"
EstopTerminate ==
    /\ mpc = "estop"
    /\ IF pc # "closed"
       THEN mpc' = "wait" /\ termSent' = TRUE
       ELSE mpc' = "lift" /\ UNCHANGED termSent
    /\ UNCHANGED <<no_voice, stop_flag, success, log, spoken, lifted, midDraw>>
    /\ UNCHANGED scriptVars
    /\ UNCHANGED drvVars
    /\ UNCHANGED penVars
    /\ UNCHANGED fnVars

\* the subprocess dies of the SIGTERM
ChildKilled ==
    /\ termSent
    /\ Alive
    /\ pc' = "killed"
    /\ UNCHANGED <<job, exitCode, todo, wire>>
    /\ UNCHANGED rossVars
    /\ UNCHANGED drvVars
    /\ UNCHANGED penVars
    /\ UNCHANGED fnVars

\* a wait that returns whether the subprocess has exited or not
EstopWaitDone_nowait ==
    /\ mpc = "wait"
    /\ mpc' = "lift"
    /\ UNCHANGED <<no_voice, stop_flag, success, log, spoken, termSent, lifted, midDraw>>
    /\ UNCHANGED scriptVars
    /\ UNCHANGED drvVars
    /\ UNCHANGED penVars
    /\ UNCHANGED fnVars

\* _emergency_stop: proc.wait(timeout=3) returns, the subprocess being gone
EstopWaitDone ==
    /\ mpc = "wait"
    /\ ~Alive
    /\ mpc' = "lift"
    /\ UNCHANGED <<no_voice, stop_flag, success, log, spoken, termSent, lifted, midDraw>>
    /\ UNCHANGED scriptVars
    /\ UNCHANGED drvVars
    /\ UNCHANGED penVars
    /\ UNCHANGED fnVars

\* _emergency_stop: proc.wait(timeout=3) raises TimeoutExpired, the subprocess
\* being still there after 3 s; nothing catches it, main dies of it
EstopWaitTimeout ==
    /\ mpc = "wait"
    /\ Alive
    /\ mpc' = "crashed"
    /\ UNCHANGED <<no_voice, stop_flag, success, log, spoken, termSent, lifted, midDraw>>
    /\ UNCHANGED scriptVars
    /\ UNCHANGED drvVars
    /\ UNCHANGED penVars
    /\ UNCHANGED fnVars

\* a burst that sets relative mode after the lift and its barrier
EmergencyLift_modes_last == << G21, G1Z("pen_up", Milli(5000), 800), M400, G91 >>

\* s.write(b"G21\nG91\nG1 Z5 F800\nM400\n"): four lines in one write
EmergencyLift == << G21, G91, G1Z("pen_up", Milli(5000), 800), M400 >>

\* _emergency_stop: the port opens and the pen lift is written
EstopLift ==
    /\ mpc = "lift"
    /\ wire' = wire \o EmergencyLift
    /\ lifted' = "written"
    /\ mpc' = "lift_g90"
    /\ UNCHANGED <<job, pc, exitCode, todo>>
    /\ UNCHANGED <<no_voice, stop_flag, success, log, spoken, termSent, midDraw>>
    /\ UNCHANGED drvVars
    /\ UNCHANGED penVars
    /\ UNCHANGED fnVars

\* _emergency_stop: serial.Serial(PORT, ...) raises; the except branch prints a
\* warning; run_draw returns False
EstopLiftFails ==
    /\ mpc = "lift"
    /\ lifted' = "failed"
    /\ mpc' = "drawn"
    /\ success' = FALSE
    /\ UNCHANGED <<no_voice, stop_flag, log, spoken, termSent, midDraw>>
    /\ UNCHANGED scriptVars
    /\ UNCHANGED drvVars
    /\ UNCHANGED penVars
    /\ UNCHANGED fnVars

\* _emergency_stop: s.write(b"G90\n") after the sleep; run_draw returns False
EstopG90 ==
    /\ mpc = "lift_g90"
    /\ wire' = Append(wire, G90)
    /\ mpc' = "drawn"
    /\ success' = FALSE
    /\ UNCHANGED <<job, pc, exitCode, todo>>
    /\ UNCHANGED <<no_voice, stop_flag, log, spoken, termSent, lifted, midDraw>>
    /\ UNCHANGED drvVars
    /\ UNCHANGED penVars
    /\ UNCHANGED fnVars

\* main: run_draw has returned; "if stop_flag.is_set(): log STOP; return"
MainAfterDraw ==
    /\ mpc = "drawn"
    /\ IF stop_flag
       THEN mpc' = "returned" /\ log' = Append(log, "STOP arm stopped mid-draw")
       ELSE mpc' = "outro" /\ UNCHANGED log
    /\ UNCHANGED <<no_voice, stop_flag, success, spoken, termSent, lifted, midDraw>>
    /\ UNCHANGED scriptVars
    /\ UNCHANGED drvVars
    /\ UNCHANGED penVars
    /\ UNCHANGED fnVars

\* main: the outro or the failure message, then JOB END
MainOutro ==
    /\ mpc = "outro"
    /\ LET said == IF success THEN "outro" ELSE "failure"
           entry == IF success THEN "VOICE OUTRO" ELSE "ERROR draw subprocess failed"
           status == IF success THEN "JOB END status=success" ELSE "JOB END status=failed"
       IN  IF no_voice
           THEN log' = Append(log, status) /\ UNCHANGED spoken
           ELSE /\ log' = Append(Append(log, entry), status)
                /\ spoken' = IF stop_flag THEN spoken ELSE spoken \cup {said}
    /\ mpc' = "returned"
    /\ UNCHANGED <<no_voice, stop_flag, success, termSent, lifted, midDraw>>
    /\ UNCHANGED scriptVars
    /\ UNCHANGED drvVars
    /\ UNCHANGED penVars
    /\ UNCHANGED fnVars

RossMain ==
    \/ handle_stop
    \/ MainNarration
    \/ MainTone
    \/ MainIntro
    \/ MainIntroCheck
    \/ RunDrawPopen
    \/ RunDrawPoll
    \/ RunDrawFlag
    \/ EstopTerminate
    \/ ChildKilled
    \/ EstopWaitDone
    \/ EstopWaitTimeout
    \/ EstopLift
    \/ EstopLiftFails
    \/ EstopG90
    \/ MainAfterDraw
    \/ MainOutro

(***************************************************************************)
(* SpecJob: a bob_ross.py draw job, the stop signal arriving at any moment *)
(* or not at all.                                                          *)
(***************************************************************************)
InitJob ==
    /\ job \in { ShapeJob(k, 0, 0, TRUE) : k \in {"square", "unknown"} }
    /\ pc = "unborn"
    /\ exitCode = -1
    /\ todo = << >>
    /\ wire = << >>
    /\ DrvInit
    /\ PenInit
    /\ mpc = "narration"
    /\ no_voice \in BOOLEAN
    /\ stop_flag = FALSE
    /\ success = FALSE
    /\ log = << >>
    /\ spoken = {}
    /\ termSent = FALSE
    /\ lifted = "no"
    /\ midDraw = FALSE
    /\ NoFn

NextJob ==
    \/ RossMain
    \/ DrawMain
    \/ PromptDriver

SpecJob == InitJob /\ [][NextJob]_vars

(***************************************************************************)
(* SpecJobLossy: the same job with a controller that may answer late or    *)
(* lose acks, so that a send of the subprocess may end by its timeout.     *)
(***************************************************************************)
NextJobLossy ==
    \/ RossMain
    \/ DrawMain
    \/ Driver

SpecJobLossy == InitJob /\ [][NextJobLossy]_vars

(***************************************************************************)
(* What is on the wire.                                                    *)
(***************************************************************************)
\* a G1 with an X or a Y word
IsMove(c) == c.op = "G1" /\ (c.hasX \/ c.hasY)

\* a G1 with a Z word alone: a pen lift or a pen drop
IsToggle(c) == c.op = "G1" /\ ~c.hasX /\ ~c.hasY /\ c.hasZ

IsBarrier(c) == c.op = "M400"

\* the indexes of the pen toggles of w
Toggles(w) == { k \in 1..Len(w) : IsToggle(w[k]) }

\* the last index of T that is at most n, 0 if none
LastIn(T, n) ==
    LET B == { k \in T : k <= n }
    IN  IF B = {} THEN 0 ELSE CHOOSE k \in B : \A m \in B : m <= k

\* the pen is up once the first n lines of w are executed, T being w's pen
\* toggles and the pen being up before the first line
PenUpIn(w, T, n) == LET k == LastIn(T, n) IN k = 0 \/ w[k].z > 0

\* the sum of the X words, and of the Y words, of lines lo..hi of w
RECURSIVE SumXIn(_, _, _)
SumXIn(w, lo, hi) ==
    IF lo > hi THEN 0
    ELSE IF lo = hi THEN (IF w[lo].hasX THEN w[lo].x ELSE 0)
    ELSE LET mid == (lo + hi) \div 2
         IN  SumXIn(w, lo, mid) + SumXIn(w, mid + 1, hi)

RECURSIVE SumYIn(_, _, _)
SumYIn(w, lo, hi) ==
    IF lo > hi THEN 0
    ELSE IF lo = hi THEN (IF w[lo].hasY THEN w[lo].y ELSE 0)
    ELSE LET mid == (lo + hi) \div 2
         IN  SumYIn(w, lo, mid) + SumYIn(w, mid + 1, hi)

SumX(w) == SumXIn(w, 1, Len(w))

SumY(w) == SumYIn(w, 1, Len(w))

\* main is past its drawing function, which returned without an error
DrawingReturned == pc \in {"finally", "closed"} /\ exitCode = 0

(***************************************************************************)
(* Claims.                                                                 *)
(***************************************************************************)

\* C1: on the normal streaming path a command is never written while an
\* earlier send is still waiting: every line on the wire but the last has had
\* its wait ended, by an 'ok' match or by its timeout, and a line is written
\* only by a sender that is not waiting.
C1_NoPipelining ==
    /\ Len(wire) - returned \in {0, 1}
    /\ (sphase = "wait") <=> (Len(wire) = returned + 1)
    /\ returned > 0 => lastEnd \in {"ok", "timeout"}

\* a third command is on the wire, waiting; it was written after a wait that
\* ended on the 'ok' of an earlier command, the ack of its own line not having
\* arrived
C1_Witness ==
    /\ Len(wire) >= 3
    /\ sphase = "wait"
    /\ lastEnd = "ok"
    /\ ~ownAck

\* C2: a send whose timeout elapses without an acknowledgment returns
\* normally: the step that ends the wait by timeout counts as a return, raises
\* nothing (main's position and exit code are untouched) and leaves the rest of
\* the job's commands to be written.
C2_TimeoutReturns ==
    [][ (sphase = "wait" /\ sphase' = "idle" /\ lastEnd' = "timeout")
            => /\ returned' = returned + 1
               /\ pc' = pc
               /\ exitCode' = exitCode
               /\ todo' = todo
               /\ wire' = wire ]_vars

\* a text job ran to its end and exited 0 although no send ever saw an 'ok'
C2_Witness ==
    /\ pc = "closed"
    /\ exitCode = 0
    /\ ~everOk
    /\ returned = Len(wire)
    /\ Len(wire) > 10
    /\ lastEnd = "timeout"
    /\ wire[Len(wire)] = G90

\* C3: wait_motion returns only after the acknowledgment of its own M400 has
\* arrived, so whenever it has returned the controller has consumed every
\* line and its motion queue was empty.
C3_BarrierMeansDrained ==
    (returned > 0 /\ returned = Len(wire) /\ sphase = "idle"
        /\ IsBarrier(wire[returned]))
        => /\ lastEnd = "ok"
           /\ ownAck
           /\ drained

\* C4: every pen toggle is gated by barriers: a move or a toggle on the wire
\* is directly followed by an M400, and nothing is written after that M400
\* until its wait has returned; so between a move and the next toggle, and
\* between a toggle and the next move, a barrier wait was issued and returned.
C4_TogglesGated ==
    \A i \in 1..Len(wire) :
        (IsMove(wire[i]) \/ IsToggle(wire[i])) =>
            /\ i < Len(wire) => IsBarrier(wire[i + 1])
            /\ i + 1 < Len(wire) => returned >= i + 1

\* a move, its barrier, a toggle, its barrier and a further move are on the
\* wire, one of the barrier waits having ended by timeout
C4_Witness ==
    /\ Len(wire) >= 5
    /\ lastEnd = "timeout"
    /\ \E i \in 1..(Len(wire) - 4) :
        /\ IsMove(wire[i])
        /\ IsBarrier(wire[i + 1])
        /\ IsToggle(wire[i + 2])
        /\ IsBarrier(wire[i + 3])
        /\ IsMove(wire[i + 4])

\* C5: in draw_segments every move at the draw feed is emitted with the pen
\* down, every move at the travel feed with the pen up, and the pen is up when
\* draw_segments has returned.
C5_FeedFollowsPen ==
    LET T == Toggles(wire)
    IN  /\ \A i \in 1..Len(wire) :
              IsMove(wire[i]) =>
                  /\ wire[i].f = job.feed => ~PenUpIn(wire, T, i - 1)
                  /\ wire[i].f = TRAVEL_FEED => PenUpIn(wire, T, i - 1)
                  /\ wire[i].f \in {job.feed, TRAVEL_FEED}
        /\ DrawingReturned => PenUpIn(wire, T, Len(wire))

\* draw_segments has returned after a travel move, a pen drop, a draw move, a
\* pen lift and the return move
C5_Witness ==
    /\ DrawingReturned
    /\ job.kind = "svg"
    /\ \E i, j, k \in 1..Len(wire) :
          /\ i < j /\ j < k
          /\ IsMove(wire[i]) /\ wire[i].f = TRAVEL_FEED
          /\ IsMove(wire[j]) /\ wire[j].f = job.feed
          /\ IsMove(wire[k]) /\ wire[k].f = TRAVEL_FEED
    /\ Toggles(wire) # {}

\* C6: a shape starts and ends with the pen up: the first pen command on the
\* wire is a pen drop, every travel move is emitted with the pen up, and once
\* the shape is drawn the last pen command is a pen lift.
C6_ShapePenUp ==
    LET T == Toggles(wire)
    IN  /\ \A i \in T : LastIn(T, i - 1) = 0 => wire[i].z < 0
        /\ \A i \in 1..Len(wire) :
              IsMove(wire[i]) =>
                  /\ wire[i].f = TRAVEL_FEED => PenUpIn(wire, T, i - 1)
                  /\ wire[i].f = DRAW_FEED => ~PenUpIn(wire, T, i - 1)
        /\ DrawingReturned =>
              LET k == LastIn(T, Len(wire)) IN k > 0 /\ wire[k].z > 0

\* a circle of a given size has been drawn: its travel out, its pen drop, its
\* draw moves, its pen lift and its travel back are on the wire
C6_Witness ==
    /\ DrawingReturned
    /\ job.kind = "circle"
    /\ job.size # 0
    /\ Len(wire) > 2 * CIRCLE_SEGMENTS
    /\ IsMove(wire[3]) /\ wire[3].f = TRAVEL_FEED
    /\ IsMove(wire[Len(wire) - 2]) /\ wire[Len(wire) - 2].f = TRAVEL_FEED

\* C7: a shape is a closed path: once it is drawn, the X words of all the
\* moves on the wire sum to zero, and so do the Y words, each within one step
\* of the wire's resolution (0.001 mm).
C7_ShapeClosed ==
    DrawingReturned =>
        /\ Abs(SumX(wire)) <= 1
        /\ Abs(SumY(wire)) <= 1

\* a triangle has been drawn whose X words sum to 0.001 mm, not to zero
C7_Witness ==
    /\ DrawingReturned
    /\ job.kind = "triangle"
    /\ \E i \in 1..Len(wire) : IsMove(wire[i]) /\ wire[i].f = DRAW_FEED
    /\ SumX(wire) # 0

\* C8: once draw_segments has returned, the X and the Y words of all the
\* moves it emitted, the final return move included, sum to (0, 0), and the
\* pen is up.
C8_SegmentsReturnToOrigin ==
    (DrawingReturned /\ job.kind = "svg") =>
        /\ SumX(wire) = 0
        /\ SumY(wire) = 0
        /\ PenUpIn(wire, Toggles(wire), Len(wire))

\* C9: whenever main logs STOP 'arm stopped mid-draw', _emergency_stop has
\* gone through its pen lift before, whatever the moment the stop signal
\* arrived.
C9_StopLogAfterPenLift ==
    Logged("STOP arm stopped mid-draw") => lifted # "no"

\* C10: in a job whose stop signal is raised mid-draw, main logs STOP and
\* returns: it does not die of an exception, it logs STOP 'arm stopped
\* mid-draw' as its last entry, it never logs JOB END with status success or
\* failed, and it never speaks the outro or the failure message.
C10_StopMidDrawCancels ==
    midDraw =>
        /\ mpc # "crashed"
        /\ mpc = "returned" =>
              (Len(log) > 0 /\ log[Len(log)] = "STOP arm stopped mid-draw")
        /\ ~Logged("JOB END status=success")
        /\ ~Logged("JOB END status=failed")
        /\ ~Logged("VOICE OUTRO")
        /\ "outro" \notin spoken
        /\ "failure" \notin spoken

\* C11: _emergency_stop returns normally in every case: once it has sent the
\* terminate to the subprocess, main does not die of an exception, and when
\* run_draw has returned the pen lift was written or its failure was caught.
C11_EmergencyStopReturns ==
    termSent =>
        /\ mpc # "crashed"
        /\ mpc \in {"drawn", "outro", "returned"} => lifted # "no"

\* C12: the transport has one writer at a time. Every line written to the
\* wire is either a line of the draw stream (a send of the subprocess, taken
\* from its remaining calls), written while the emergency burst has not
\* begun, or a line of the emergency burst, written when the subprocess has
\* exited.
C12_OneWriter ==
    [][ wire' # wire =>
            IF todo' # todo
            THEN lifted = "no" /\ Alive
            ELSE ~Alive /\ mpc \in {"lift", "lift_g90"} ]_vars

\* the burst and its G90 were written after a subprocess that was killed
\* in the middle of its stream
C12_Witness ==
    /\ lifted = "written"
    /\ mpc = "drawn"
    /\ pc = "killed"
    /\ todo # << >>
    /\ Len(wire) > Len(EmergencyLift) + 1

\* C13: at any time, in every phase of a job, the emergency pen lift
\* included, at most one command written to the wire is outstanding, i.e.
\* not yet taken in and answered by the controller.
C13_OneOutstanding ==
    Len(wire) - cin <= 1

\* C14: the ack wait of GCodeIO.send and the barrier wait of wait_motion
\* re-check the stop signal at each poll iteration and return early once it
\* is set: a wait begun when the stop signal was already set does not run
\* until its timeout elapses.
C14_WaitsObserveStop ==
    [][ (sphase = "wait" /\ sawStop /\ sphase' = "idle") => lastEnd' # "timeout" ]_vars

(***************************************************************************)
(* SpecAck: the poll loop of one GCodeIO.send at the level of bytes.  In   *)
(* the specifications above an element of buf stands for one received      *)
(* line "ok"; here buf and rx hold the bytes themselves, and fn_in is      *)
(* everything the port delivers before the timeout of the send elapses.    *)
(***************************************************************************)
MaxRecv == 4

\* the bytes the port may deliver: letters of both cases, a digit, a line end
Bytes == {"o", "O", "k", "n", "1", "\n"}

\* \w of a bytes pattern: ASCII letters, digits and the underscore
IsWord(c) == c \in {"o", "O", "k", "K", "n", "1", "_"}

\* re.I: the letters of the pattern in either case
IsO(c) == c \in {"o", "O"}
IsK(c) == c \in {"k", "K"}

\* a search for 'ok' in either case wherever it stands
OK_PAT_search_substring(b) ==
    \E i \in 1..(Len(b) - 1) : IsO(b[i]) /\ IsK(b[i + 1])

\* OK_PAT = re.compile(rb"\bok\b", re.I); OK_PAT.search(b): 'ok' in either
\* case with a word boundary on both sides
OK_PAT_search(b) ==
    \E i \in 1..(Len(b) - 1) :
        /\ IsO(b[i])
        /\ IsK(b[i + 1])
        /\ (IF i = 1 THEN TRUE ELSE ~IsWord(b[i - 1]))
        /\ (IF i + 1 = Len(b) THEN TRUE ELSE ~IsWord(b[i + 2]))

\* _rx_loop: n = ser.in_waiting bytes have arrived; read them, extend buf
RxBytes ==
    /\ rx # << >>
    /\ \E n \in 1..Len(rx) :
           /\ buf' = buf \o SubSeq(rx, 1, n)
           /\ rx' = SubSeq(rx, n + 1, Len(rx))
    /\ UNCHANGED <<job, pc, exitCode, todo, wire, sphase, returned, lastEnd,
                   ownAck, drained, everOk, sawStop, cin, queue>>
    /\ UNCHANGED penVars
    /\ UNCHANGED rossVars
    /\ UNCHANGED fnVars

\* send: a poll iteration finds OK_PAT in buf, clears buf and returns
AckPollOk ==
    /\ sphase = "wait"
    /\ OK_PAT_search(buf)
    /\ buf' = << >>
    /\ sphase' = "idle"
    /\ returned' = returned + 1
    /\ lastEnd' = "ok"
    /\ everOk' = TRUE
    /\ UNCHANGED <<job, pc, exitCode, todo, wire, ownAck, drained, sawStop, rx, cin, queue>>
    /\ UNCHANGED penVars
    /\ UNCHANGED rossVars
    /\ UNCHANGED fnVars

\* send: the timeout elapses, everything delivered is in buf and OK_PAT is
\* not found; the warning is printed and the call returns
AckPollTimeout ==
    /\ sphase = "wait"
    /\ rx = << >>
    /\ ~OK_PAT_search(buf)
    /\ sphase' = "idle"
    /\ returned' = returned + 1
    /\ lastEnd' = "timeout"
    /\ UNCHANGED <<job, pc, exitCode, todo, wire, ownAck, drained, everOk, sawStop, buf, rx,
                   cin, queue>>
    /\ UNCHANGED penVars
    /\ UNCHANGED rossVars
    /\ UNCHANGED fnVars

\* the byte strings of up to MaxRecv bytes
RecvSeqs == UNION { [1..n -> Bytes] : n \in 0..MaxRecv }

\* g.send("G21") has written its line and entered its poll loop
InitAck ==
    /\ fn_in \in RecvSeqs
    /\ fn_out = NoCall
    /\ job = ShapeJob("square", 0, 0, TRUE)
    /\ pc = "body"
    /\ exitCode = -1
    /\ todo = << G91 >>
    /\ wire = << G21 >>
    /\ sphase = "wait"
    /\ returned = 0
    /\ lastEnd = "none"
    /\ ownAck = FALSE
    /\ drained = TRUE
    /\ everOk = FALSE
    /\ sawStop = FALSE
    /\ buf = << >>
    /\ rx = fn_in
    /\ cin = 1
    /\ queue = 0
    /\ PenInit
    /\ NoRoss

NextAck ==
    \/ RxBytes
    \/ AckPollOk
    \/ AckPollTimeout

SpecAck == InitAck /\ [][NextAck]_vars

\* C15: a pending ack wait is satisfied by received bytes that hold 'ok', in
\* either letter case, as a word of its own: a send that ended by its match
\* was delivered an 'ok' not preceded by a letter, digit or underscore, and a
\* send that ended by its timeout was delivered no 'ok' but such as stand
\* directly next to a letter, digit or underscore.
C15_AckIsWholeWordOk ==
    sphase = "idle" =>
        /\ lastEnd = "ok" =>
               \E i \in 1..(Len(fn_in) - 1) :
                   /\ IsO(fn_in[i]) /\ IsK(fn_in[i + 1])
                   /\ (IF i = 1 THEN TRUE ELSE ~IsWord(fn_in[i - 1]))
        /\ lastEnd = "timeout" =>
               \A i \in 1..(Len(fn_in) - 1) :
                   (IsO(fn_in[i]) /\ IsK(fn_in[i + 1])) =>
                       \/ (IF i > 1 THEN IsWord(fn_in[i - 1]) ELSE FALSE)
                       \/ (IF i + 2 <= Len(fn_in) THEN IsWord(fn_in[i + 2]) ELSE FALSE)

\* a send satisfied by an 'Ok' in mixed case that stands on a line of its
\* own in the middle of what was received
C15_Witness ==
    /\ sphase = "idle"
    /\ lastEnd = "ok"
    /\ Len(fn_in) = 4
    /\ fn_in[1] = "\n" /\ fn_in[2] = "O" /\ fn_in[3] = "k" /\ fn_in[4] = "\n"

\* C15 as stated: the wait is satisfied by any received bytes that contain
\* 'ok' in any letter case, wherever it occurs (inside a longer word, next to
\* letters or digits).
C15_AnySubstringOk ==
    (sphase = "idle" /\ OK_PAT_search_substring(fn_in)) => lastEnd = "ok"

\* the Z of a line in 0.001 mm, a line without a Z word moving Z by nothing
ZOf(c) == IF c.hasZ THEN c.z ELSE 0

\* C16: in every drawing job (shape, SVG and text), every relative move with
\* a nonzero Y delta carries on its own G1 line the Z of tilt_slope x dy, to
\* the precision of the wire format (two thousandths of a millimetre).
C16_EveryYMoveCompensated ==
    \A k \in 1..Len(wire) :
        (IsMove(wire[k]) /\ wire[k].hasY /\ wire[k].y # 0) =>
            Abs(ZOf(wire[k]) * TiltScale - job.tilt * wire[k].y) <= 2 * TiltScale

(***************************************************************************)
(* SpecTilt: the moves of huenit_draw.py and of draw_segments called on    *)
(* their own with a Y delta and with twice that Y delta, at one            *)
(* tilt_slope.                                                             *)
(***************************************************************************)
MaxTiltDy == 12

\* tilt_slope as calibration.json holds it (rounded to 5 decimals), times
\* TiltScale
TiltSlopes == {0, 2500, -1300, 37}

\* Y deltas in internal units: multiples of 0.037 mm and of 3.7013 mm
TiltDys ==
    { d * 370 : d \in -MaxTiltDy..MaxTiltDy } \cup { d * 37013 : d \in -MaxTiltDy..MaxTiltDy }

\* the Z that the lines of one move inject, in 0.001 mm: that of the G1 line
\* if the move writes one
InjectedZ(cmds) == IF cmds = << >> THEN 0 ELSE ZOf(cmds[1])

InitTilt ==
    /\ fn_in \in [tilt : TiltSlopes, dy : TiltDys]
    /\ fn_out = NoCall
    /\ job = ShapeJob("unknown", 0, 0, FALSE)
    /\ pc = "closed"
    /\ exitCode = 1
    /\ todo = << >>
    /\ wire = << >>
    /\ DrvInit
    /\ PenInit
    /\ NoRoss

\* move_to(0, dy) and move_to(0, 2 * dy)
MoveToCall ==
    /\ fn_out.via = "none"
    /\ fn_out' = [via |-> "move_to",
                  once |-> InjectedZ(move_to(fn_in.tilt, 0, fn_in.dy)),
                  twice |-> InjectedZ(move_to(fn_in.tilt, 0, 2 * fn_in.dy))]
    /\ UNCHANGED <<fn_in, job, pc, exitCode, todo, wire>>
    /\ UNCHANGED drvVars
    /\ UNCHANGED penVars
    /\ UNCHANGED rossVars

\* draw_to(0, dy) and draw_to(0, 2 * dy)
DrawToCall ==
    /\ fn_out.via = "none"
    /\ fn_out' = [via |-> "draw_to",
                  once |-> InjectedZ(draw_to(fn_in.tilt, 0, fn_in.dy)),
                  twice |-> InjectedZ(draw_to(fn_in.tilt, 0, 2 * fn_in.dy))]
    /\ UNCHANGED <<fn_in, job, pc, exitCode, todo, wire>>
    /\ UNCHANGED drvVars
    /\ UNCHANGED penVars
    /\ UNCHANGED rossVars

\* the move of a 'line' segment of draw_segments by (0, dy) and by (0, 2 * dy)
SegMoveCall ==
    /\ fn_out.via = "none"
    /\ fn_out' = [via |-> "draw_segments",
                  once |-> InjectedZ(SegMove("draw", fn_in.tilt, 0, fn_in.dy, DRAW_FEED)),
                  twice |-> InjectedZ(SegMove("draw", fn_in.tilt, 0, 2 * fn_in.dy, DRAW_FEED))]
    /\ UNCHANGED <<fn_in, job, pc, exitCode, todo, wire>>
    /\ UNCHANGED drvVars
    /\ UNCHANGED penVars
    /\ UNCHANGED rossVars

NextTilt ==
    \/ MoveToCall
    \/ DrawToCall
    \/ SegMoveCall

SpecTilt == InitTilt /\ [][NextTilt]_vars

\* C17: tilt compensation is linear in the Y delta to the precision of the
\* wire format: at a fixed tilt_slope, the Z injected into a move of 2 x dy
\* differs from twice the Z injected into a move of dy by at most 0.002 mm.
C17_TiltLinearOnWire ==
    fn_out.via # "none" => Abs(fn_out.twice - 2 * fn_out.once) <= 2

\* a move on a tilted surface whose Z word is doubled with its Y delta
C17_Witness ==
    /\ fn_out.via # "none"
    /\ fn_in.tilt # 0
    /\ Abs(fn_out.once) > 100
    /\ fn_out.twice = 2 * fn_out.once

\* C17 as stated: the Z injected into a move of 2 x dy is exactly twice the
\* Z injected into a move of dy.
C17_TiltExactlyDoubles ==
    fn_out.via # "none" => fn_out.twice = 2 * fn_out.once

(***************************************************************************)
(* SpecTransform: transform_segments called on its own, and called again   *)
(* on its own result with the same size_mm.  Input coordinates are in      *)
(* 0.01 SVG units, size_mm and the results in 0.01 mm; a float of the      *)
(* program is the nearest value of that grid.                              *)
(***************************************************************************)
MaxDocSegs == 3

\* end points of parsed segments: among them the corners (0, 0) and (10, 20)
\* of a 10 x 20 rect
DocPoints == { <<0, 0>>, <<1000, 2000>>, <<1000, 0>>, <<333, 1777>>, <<2000, 450>> }

DocSegs == { Seg(k, p[1], p[2]) : k \in {"move", "line"}, p \in DocPoints }

\* the lists parse_svg may return, up to MaxDocSegs segments
DocLists == UNION { [1..n -> DocSegs] : n \in 0..MaxDocSegs }

\* args.size: 80 mm, 25 mm, 123.45 mm
TargetSizes == {8000, 2500, 12345}

MinOf(S) == CHOOSE v \in S : \A u \in S : v <= u

MaxOf(S) == CHOOSE v \in S : \A u \in S : v >= u

\* xs = [x for _, x, _ in segments], as a set
XsOf(segments) == { segments[i].x : i \in 1..Len(segments) }

\* ys = [y for _, _, y in segments], as a set
YsOf(segments) == { segments[i].y : i \in 1..Len(segments) }

\* x_max - x_min of a list that is not empty
WidthOf(segments) == MaxOf(XsOf(segments)) - MinOf(XsOf(segments))

\* y_max - y_min of a list that is not empty
HeightOf(segments) == MaxOf(YsOf(segments)) - MinOf(YsOf(segments))

\* max(w, h)
LongerSide(segments) ==
    IF WidthOf(segments) >= HeightOf(segments) THEN WidthOf(segments) ELSE HeightOf(segments)

\* a transform that keeps the direction of Y
transform_segments_noflip(segments, size_mm) ==
    IF segments = << >>
    THEN << >>
    ELSE LET x_sum == MinOf(XsOf(segments)) + MaxOf(XsOf(segments))
             y_sum == MinOf(YsOf(segments)) + MaxOf(YsOf(segments))
             m == LongerSide(segments)
         IN  IF m = 0
             THEN << >>
             ELSE [i \in 1..Len(segments) |->
                      Seg(segments[i].kind,
                          MulDiv(2 * segments[i].x - x_sum, size_mm, 2 * m),
                          MulDiv(2 * segments[i].y - y_sum, size_mm, 2 * m))]

\* a transform that fits each axis to size_mm by a scale of its own
transform_segments_stretch(segments, size_mm) ==
    IF segments = << >>
    THEN << >>
    ELSE LET x_sum == MinOf(XsOf(segments)) + MaxOf(XsOf(segments))
             y_sum == MinOf(YsOf(segments)) + MaxOf(YsOf(segments))
             w == WidthOf(segments)
             h == HeightOf(segments)
         IN  IF LongerSide(segments) = 0
             THEN << >>
             ELSE [i \in 1..Len(segments) |->
                      Seg(segments[i].kind,
                          IF w = 0 THEN 0
                          ELSE MulDiv(2 * segments[i].x - x_sum, size_mm, 2 * w),
                          IF h = 0 THEN 0
                          ELSE -MulDiv(2 * segments[i].y - y_sum, size_mm, 2 * h))]

\* transform_segments: scale = size_mm / max(w, h); every point becomes
\* ((x - x_center) * scale, -(y - y_center) * scale), the centers being
\* (x_min + x_max) / 2 and (y_min + y_max) / 2; [] for an empty list and for
\* a box of no extent
transform_segments(segments, size_mm) ==
    IF segments = << >>
    THEN << >>
    ELSE LET x_sum == MinOf(XsOf(segments)) + MaxOf(XsOf(segments))
             y_sum == MinOf(YsOf(segments)) + MaxOf(YsOf(segments))
             m == LongerSide(segments)
         IN  IF m = 0
             THEN << >>
             ELSE [i \in 1..Len(segments) |->
                      Seg(segments[i].kind,
                          MulDiv(2 * segments[i].x - x_sum, size_mm, 2 * m),
                          -MulDiv(2 * segments[i].y - y_sum, size_mm, 2 * m))]

InitTransform ==
    /\ fn_in \in [segs : DocLists, size : TargetSizes]
    /\ fn_out = NoCall
    /\ job = SvgJob(NoSegs, 0, FALSE)
    /\ pc = "closed"
    /\ exitCode = 1
    /\ todo = << >>
    /\ wire = << >>
    /\ DrvInit
    /\ PenInit
    /\ NoRoss

\* transform_segments(segments, args.size)
TransformCall ==
    /\ fn_out.via = "none"
    /\ fn_out' = [via |-> "transform_segments", calls |-> 1, arg |-> fn_in.segs,
                  out |-> transform_segments(fn_in.segs, fn_in.size)]
    /\ UNCHANGED <<fn_in, job, pc, exitCode, todo, wire>>
    /\ UNCHANGED drvVars
    /\ UNCHANGED penVars
    /\ UNCHANGED rossVars

\* transform_segments called on what it returned, with the same size
TransformAgain ==
    /\ fn_out.via = "transform_segments"
    /\ fn_out.calls = 1
    /\ fn_out' = [via |-> "transform_segments", calls |-> 2, arg |-> fn_out.out,
                  out |-> transform_segments(fn_out.out, fn_in.size)]
    /\ UNCHANGED <<fn_in, job, pc, exitCode, todo, wire>>
    /\ UNCHANGED drvVars
    /\ UNCHANGED penVars
    /\ UNCHANGED rossVars

NextTransform ==
    \/ TransformCall
    \/ TransformAgain

SpecTransform == InitTransform /\ [][NextTransform]_vars

\* has transform_segments returned for the n-th time, its argument being a
\* list with a box of some extent
Transformed(n) ==
    /\ fn_out.via = "transform_segments"
    /\ fn_out.calls = n
    /\ fn_out.arg # << >>
    /\ LongerSide(fn_out.arg) > 0

\* C18: transform_segments applied to a document it has already normalized,
\* with the same size_mm, returns the segments of that document mirrored in
\* Y: every kind and every X is kept, every Y changes its sign (within one
\* step of the grid).
C18_RenormalizeMirrorsY ==
    Transformed(2) =>
        /\ Len(fn_out.out) = Len(fn_out.arg)
        /\ \A i \in 1..Len(fn_out.arg) :
               /\ fn_out.out[i].kind = fn_out.arg[i].kind
               /\ Abs(fn_out.out[i].x - fn_out.arg[i].x) <= 1
               /\ Abs(fn_out.out[i].y + fn_out.arg[i].y) <= 1

\* a normalized document with a point well off the X axis was normalized
\* again
C18_Witness ==
    /\ Transformed(2)
    /\ \E i \in 1..Len(fn_out.arg) : Abs(fn_out.arg[i].y) > 1000

\* C18 as stated: applied to a document it has already normalized, with the
\* same size_mm, transform_segments returns the same coordinates for every
\* segment (within one step of the grid).
C18_Idempotent ==
    Transformed(2) =>
        /\ Len(fn_out.out) = Len(fn_out.arg)
        /\ \A i \in 1..Len(fn_out.arg) :
               /\ Abs(fn_out.out[i].x - fn_out.arg[i].x) <= 1
               /\ Abs(fn_out.out[i].y - fn_out.arg[i].y) <= 1

\* C19: for a segment list whose box has some extent, transform_segments
\* scales both axes by size_mm / max(w, h): the longer side of the output box
\* is size_mm, each side of the output box is the input side times
\* size_mm / max(w, h), and the output box is centered on the origin (each
\* within one step of the grid).
C19_UniformScaleCentered ==
    Transformed(1) =>
        LET m == LongerSide(fn_out.arg)
        IN  /\ Len(fn_out.out) = Len(fn_out.arg)
            /\ Abs(LongerSide(fn_out.out) - fn_in.size) <= 1
            /\ Abs(WidthOf(fn_out.out) * m - WidthOf(fn_out.arg) * fn_in.size) <= m
            /\ Abs(HeightOf(fn_out.out) * m - HeightOf(fn_out.arg) * fn_in.size) <= m
            /\ Abs(MinOf(XsOf(fn_out.out)) + MaxOf(XsOf(fn_out.out))) <= 1
            /\ Abs(MinOf(YsOf(fn_out.out)) + MaxOf(YsOf(fn_out.out))) <= 1

\* a document with a box of 10 x 20 normalized to 80 mm has a box of
\* 40 x 80 mm
C19_Witness ==
    /\ Transformed(1)
    /\ fn_in.size = 8000
    /\ WidthOf(fn_out.arg) = 1000
    /\ HeightOf(fn_out.arg) = 2000
    /\ WidthOf(fn_out.out) = 4000
    /\ HeightOf(fn_out.out) = 8000

(***************************************************************************)
(* SpecSvgFile: huenit_svg.py from the parsed document on: main checks     *)
(* the ready flag, parses, leaves if nothing was parsed, normalizes and    *)
(* runs the session.  fn_in is what parse_svg returns and args.size.       *)
(***************************************************************************)
\* a list of SpecTransform's grid (0.01 mm) in the units of the session
InUnits(segments) ==
    [i \in 1..Len(segments) |->
        Seg(segments[i].kind, segments[i].x * 10 * Sub, segments[i].y * 10 * Sub)]

\* main: check_ready(); segments = parse_svg(args.svg); "if not segments:
\* sys.exit(1)"; segments = transform_segments(segments, args.size);
\* g = GCodeIO(PORT, BAUD)
SvgMainParse ==
    /\ pc = "start"
    /\ job.kind = "svg"
    /\ IF job.ready /\ fn_in.segs # << >>
       THEN /\ job' = [job EXCEPT
                          !.segs = InUnits(transform_segments(fn_in.segs, fn_in.size))]
            /\ pc' = "setup"
            /\ todo' = << G21, G91 >>
            /\ UNCHANGED exitCode
       ELSE /\ pc' = "closed"
            /\ exitCode' = 1
            /\ UNCHANGED <<job, todo>>
    /\ UNCHANGED wire
    /\ UNCHANGED drvVars
    /\ UNCHANGED penVars
    /\ UNCHANGED rossVars
    /\ UNCHANGED fnVars

InitSvgFile ==
    /\ fn_in \in [segs : DocLists, size : {8000}]
    /\ fn_out = NoCall
    /\ job \in { SvgJob(NoSegs, 2500, r) : r \in BOOLEAN }
    /\ pc = "start"
    /\ exitCode = -1
    /\ todo = << >>
    /\ wire = << >>
    /\ DrvInit
    /\ PenInit
    /\ NoRoss

NextSvgFile ==
    \/ SvgMainParse
    \/ SvgMainBody
    \/ SegStep
    \/ SegFinish
    \/ SvgMainFinally
    \/ MainClose
    \/ PromptDriver

SpecSvgFile == InitSvgFile /\ [][NextSvgFile]_vars

\* the document is empty after parsing or after normalization
EmptyDocument ==
    \/ fn_in.segs = << >>
    \/ transform_segments(fn_in.segs, fn_in.size) = << >>

\* C20: an SVG job whose document is empty after parsing or after
\* normalization runs no drawing session (nothing is written to the port)
\* and exits with a failure status.
C20_EmptyDocumentFails ==
    EmptyDocument =>
        /\ wire = << >>
        /\ pc = "closed" => exitCode # 0

(***************************************************************************)
(* huenit_svg.py: parse_path_d.  fn_in.tokens is what tokenize_path        *)
(* returns for the d attribute: command letters and numbers.  Coordinates  *)
(* are in 0.001 SVG units.  fn_out is the state of the parser between two  *)
(* iterations of its loop; last, prev_ctrl, smooth and skipped are         *)
(* history the program does not keep.                                      *)
(***************************************************************************)
CURVE_STEPS == 20

\* a command letter, and a number, as tokens
Letter(c) == [letter |-> c, num |-> 0]

Num(v) == [letter |-> "", num |-> v]

\* re.match(r'[MmLlHhVvCcQqSsTtAaZz]', t)
IsLetter(t) == t.letter # ""

\* the lower-case letters give coordinates relative to the current point
IsRel(c) == c \in {"m", "l", "h", "v", "c", "s", "q", "t", "a", "z"}

Upper(c) ==
    CASE c \in {"M", "m"} -> "M"
      [] c \in {"L", "l"} -> "L"
      [] c \in {"H", "h"} -> "H"
      [] c \in {"V", "v"} -> "V"
      [] c \in {"C", "c"} -> "C"
      [] c \in {"S", "s"} -> "S"
      [] c \in {"Q", "q"} -> "Q"
      [] c \in {"T", "t"} -> "T"
      [] c \in {"A", "a"} -> "A"
      [] OTHER -> "Z"

\* the n of each command's next_nums(n)
NumsFor(up) ==
    CASE up = "M" -> 2
      [] up = "L" -> 2
      [] up = "H" -> 1
      [] up = "V" -> 1
      [] up = "C" -> 6
      [] up = "S" -> 4
      [] up = "Q" -> 4
      [] up = "T" -> 2
      [] up = "A" -> 7
      [] OTHER -> 0

\* next_nums: how many of the n numbers asked for are there, from token i on
RECURSIVE Taken(_, _, _)
Taken(tokens, i, n) ==
    IF n = 0 \/ i > Len(tokens) THEN 0
    ELSE IF IsLetter(tokens[i]) THEN 0
    ELSE 1 + Taken(tokens, i + 1, n - 1)

\* next_nums(n): the numbers that are there, 0.0 for each one missing
next_nums(tokens, i, n) ==
    [k \in 1..n |-> IF k <= Taken(tokens, i, n) THEN tokens[i + k - 1].num ELSE 0]

\* one coordinate of cubic_bezier at t = k / CURVE_STEPS
CubicAt(a0, a1, a2, a3, k) ==
    LET u == CURVE_STEPS - k
    IN  Round(u * u * u * a0 + 3 * u * u * k * a1 + 3 * u * k * k * a2 + k * k * k * a3,
              CURVE_STEPS * CURVE_STEPS * CURVE_STEPS)

\* one coordinate of quadratic_bezier at t = k / CURVE_STEPS
QuadAt(a0, a1, a2, k) ==
    LET u == CURVE_STEPS - k
    IN  Round(u * u * a0 + 2 * u * k * a1 + k * k * a2, CURVE_STEPS * CURVE_STEPS)

\* "for px, py in pts[1:]: segments.append(('line', px, py))" of a cubic
CubicLines(x0, y0, x1, y1, x2, y2, x3, y3) ==
    [k \in 1..CURVE_STEPS |->
        Seg("line", CubicAt(x0, x1, x2, x3, k), CubicAt(y0, y1, y2, y3, k))]

\* the same of a quadratic
QuadLines(x0, y0, x1, y1, x2, y2) ==
    [k \in 1..CURVE_STEPS |-> Seg("line", QuadAt(x0, x1, x2, k), QuadAt(y0, y1, y2, k))]

\* last_ctrl: None, or a control point
NoCtrl == [has |-> FALSE, x |-> 0, y |-> 0]

Ctrl(x, y) == [has |-> TRUE, x |-> x, y |-> y]

\* no smooth command has been executed
NoSmooth == [n |-> 0, at_x |-> 0, at_y |-> 0, x1 |-> 0, y1 |-> 0, prev |-> NoCtrl]

\* parse_path_d before its loop
PathStart ==
    [via |-> "parse_path_d", i |-> 1, cmd |-> "", cx |-> 0, cy |-> 0, sx |-> 0, sy |-> 0,
     last_ctrl |-> NoCtrl, segments |-> << >>,
     last |-> "", prev_ctrl |-> NoCtrl, smooth |-> NoSmooth, skipped |-> 0]

\* a Z that leaves the current command as it is
CloseSubpath_keep_cmd(st) ==
    [st EXCEPT !.segments = IF Abs(st.cx - st.sx) > 10 \/ Abs(st.cy - st.sy) > 10
                            THEN Append(@, Seg("line", st.sx, st.sy))
                            ELSE @,
               !.cx = st.sx,
               !.cy = st.sy,
               !.cmd = "L",
               !.prev_ctrl = NoCtrl]

\* Z / z: "if abs(cx - sx) > 0.01 or abs(cy - sy) > 0.01: append the line";
\* cx, cy = sx, sy; cmd = None
CloseSubpath(st) ==
    [st EXCEPT !.segments = IF Abs(st.cx - st.sx) > 10 \/ Abs(st.cy - st.sy) > 10
                            THEN Append(@, Seg("line", st.sx, st.sy))
                            ELSE @,
               !.cx = st.sx,
               !.cy = st.sy,
               !.cmd = "",
               !.prev_ctrl = NoCtrl]

\* S / T: "x1 = 2*cx - last_ctrl[0] if last_ctrl else cx", and y1 alike
SmoothCtrl(st, lc) ==
    IF lc.has
    THEN Ctrl(2 * st.cx - lc.x, 2 * st.cy - lc.y)
    ELSE Ctrl(st.cx, st.cy)

\* the branch of command cmd, the parser being at token i with last_ctrl lc
PathExec(st, tokens, cmd, i, lc) ==
    LET up == Upper(cmd)
        ns == next_nums(tokens, i, NumsFor(up))
        ox == IF IsRel(cmd) THEN st.cx ELSE 0
        oy == IF IsRel(cmd) THEN st.cy ELSE 0
        c1 == SmoothCtrl(st, lc)
        seen == [n |-> st.smooth.n + 1, at_x |-> st.cx, at_y |-> st.cy,
                 x1 |-> c1.x, y1 |-> c1.y, prev |-> st.prev_ctrl]
        base == [st EXCEPT !.i = i + Taken(tokens, i, NumsFor(up)),
                           !.cmd = cmd, !.last = cmd, !.last_ctrl = lc]
    IN  CASE up = "M" ->
                [base EXCEPT !.segments = Append(@, Seg("move", ns[1] + ox, ns[2] + oy)),
                             !.sx = ns[1] + ox, !.sy = ns[2] + oy,
                             !.cx = ns[1] + ox, !.cy = ns[2] + oy,
                             !.cmd = IF cmd = "M" THEN "L" ELSE "l",
                             !.prev_ctrl = NoCtrl]
          [] up = "L" ->
                [base EXCEPT !.segments = Append(@, Seg("line", ns[1] + ox, ns[2] + oy)),
                             !.cx = ns[1] + ox, !.cy = ns[2] + oy,
                             !.prev_ctrl = NoCtrl]
          [] up = "H" ->
                [base EXCEPT !.segments = Append(@, Seg("line", ns[1] + ox, st.cy)),
                             !.cx = ns[1] + ox,
                             !.prev_ctrl = NoCtrl]
          [] up = "V" ->
                [base EXCEPT !.segments = Append(@, Seg("line", st.cx, ns[1] + oy)),
                             !.cy = ns[1] + oy,
                             !.prev_ctrl = NoCtrl]
          [] up = "C" ->
                [base EXCEPT !.segments = @ \o CubicLines(st.cx, st.cy,
                                                 ns[1] + ox, ns[2] + oy,
                                                 ns[3] + ox, ns[4] + oy,
                                                 ns[5] + ox, ns[6] + oy),
                             !.last_ctrl = Ctrl(ns[3] + ox, ns[4] + oy),
                             !.prev_ctrl = Ctrl(ns[3] + ox, ns[4] + oy),
                             !.cx = ns[5] + ox, !.cy = ns[6] + oy]
          [] up = "S" ->
                [base EXCEPT !.segments = @ \o CubicLines(st.cx, st.cy, c1.x, c1.y,
                                                 ns[1] + ox, ns[2] + oy,
                                                 ns[3] + ox, ns[4] + oy),
                             !.last_ctrl = Ctrl(ns[1] + ox, ns[2] + oy),
                             !.prev_ctrl = Ctrl(ns[1] + ox, ns[2] + oy),
                             !.smooth = seen,
                             !.cx = ns[3] + ox, !.cy = ns[4] + oy]
          [] up = "Q" ->
                [base EXCEPT !.segments = @ \o QuadLines(st.cx, st.cy,
                                                 ns[1] + ox, ns[2] + oy,
                                                 ns[3] + ox, ns[4] + oy),
                             !.last_ctrl = Ctrl(ns[1] + ox, ns[2] + oy),
                             !.prev_ctrl = Ctrl(ns[1] + ox, ns[2] + oy),
                             !.cx = ns[3] + ox, !.cy = ns[4] + oy]
          [] up = "T" ->
                [base EXCEPT !.segments = @ \o QuadLines(st.cx, st.cy, c1.x, c1.y,
                                                 ns[1] + ox, ns[2] + oy),
                             !.last_ctrl = Ctrl(c1.x, c1.y),
                             !.prev_ctrl = Ctrl(c1.x, c1.y),
                             !.smooth = seen,
                             !.cx = ns[1] + ox, !.cy = ns[2] + oy]
          [] up = "A" ->
                [base EXCEPT !.segments = Append(@, Seg("line", ns[6] + ox, ns[7] + oy)),
                             !.cx = ns[6] + ox, !.cy = ns[7] + oy,
                             !.prev_ctrl = NoCtrl]
          [] OTHER -> CloseSubpath(base)

\* a loop that leaves a number in place when no command is current
PathIter_keep_token(st, tokens) ==
    LET t == tokens[st.i]
    IN  IF IsLetter(t) THEN PathExec(st, tokens, t.letter, st.i + 1, NoCtrl)
        ELSE IF st.cmd = "" THEN st
        ELSE PathExec(st, tokens, st.cmd, st.i, st.last_ctrl)

\* a loop that runs a command once per letter and passes over the numbers
\* that follow its arguments
PathIter_no_repeat(st, tokens) ==
    LET t == tokens[st.i]
    IN  IF IsLetter(t)
        THEN PathExec(st, tokens, t.letter, st.i + 1, NoCtrl)
        ELSE [st EXCEPT !.i = @ + 1, !.skipped = @ + 1]

\* one iteration of "while i < len(tokens)": a command letter becomes the
\* current command and clears last_ctrl; without a current command the
\* token is skipped; else the branch of the current command runs
PathIter(st, tokens) ==
    LET t == tokens[st.i]
        cmd == IF IsLetter(t) THEN t.letter ELSE st.cmd
        i == IF IsLetter(t) THEN st.i + 1 ELSE st.i
        lc == IF IsLetter(t) THEN NoCtrl ELSE st.last_ctrl
    IN  IF cmd = ""
        THEN [st EXCEPT !.i = i + 1, !.skipped = @ + 1]
        ELSE PathExec(st, tokens, cmd, i, lc)

\* a command letter followed by numbers, as tokens
Chunk(c, nums) == << Letter(c) >> \o [k \in 1..Len(nums) |-> Num(nums[k])]

\* pieces of path data: commands with their numbers, with more numbers than
\* one command takes, with none, and numbers without a command
PathChunks ==
    { Chunk("M", <<10000, 20000>>),
      Chunk("m", <<5000, -5000>>),
      Chunk("L", <<30000, 5000>>),
      Chunk("l", <<0, 4>>),
      Chunk("H", <<7000>>),
      Chunk("v", << >>),
      Chunk("C", <<0, 10000, 10000, 20000, 20000, 20000>>),
      Chunk("S", <<30000, 10000, 40000, 0>>),
      Chunk("s", <<1000, 2000, 2000, 2000, 3000, 1000, 4000, 0>>),
      Chunk("Q", <<10000, 10000, 20000, 0>>),
      Chunk("T", <<40000, 0>>),
      Chunk("A", <<5000, 5000, 0, 0, 1, 15000, 15000>>),
      Chunk("Z", << >>),
      Chunk("z", <<5000, 5000>>),
      << Num(10000), Num(10000) >> }

MaxChunks == 3

RECURSIVE Flatten(_)
Flatten(chunks) ==
    IF chunks = << >> THEN << >> ELSE Head(chunks) \o Flatten(Tail(chunks))

\* the token lists made of up to MaxChunks pieces
PathTokens == { Flatten(cs) : cs \in UNION { [1..n -> PathChunks] : n \in 0..MaxChunks } }

\* parse_path_d(d) is called
PathCall ==
    /\ fn_out.via = "none"
    /\ fn_in.tag = "path"
    /\ fn_out' = PathStart
    /\ UNCHANGED <<fn_in, job, pc, exitCode, todo, wire>>
    /\ UNCHANGED drvVars
    /\ UNCHANGED penVars
    /\ UNCHANGED rossVars

\* one iteration of the loop of parse_path_d
PathStep ==
    /\ fn_out.via = "parse_path_d"
    /\ fn_out.i <= Len(fn_in.tokens)
    /\ fn_out' = PathIter(fn_out, fn_in.tokens)
    /\ UNCHANGED <<fn_in, job, pc, exitCode, todo, wire>>
    /\ UNCHANGED drvVars
    /\ UNCHANGED penVars
    /\ UNCHANGED rossVars

\* parse_path_d has left its loop: "return segments"
PathReturned == fn_out.via = "parse_path_d" /\ fn_out.i > Len(fn_in.tokens)

(***************************************************************************)
(* huenit_svg.py: the helpers of the other elements, as parse_svg calls    *)
(* them.  fn_in.tokens holds the numbers of the element's attributes.      *)
(***************************************************************************)
CIRCLE_STEPS == 48

\* math.cos(2 * math.pi * i / CIRCLE_STEPS) * TrigScale for i = 0 .. 47
CosTab48 ==
    << 10000, 9914, 9659, 9239, 8660, 7934, 7071, 6088,
       5000, 3827, 2588, 1305, 0, -1305, -2588, -3827,
       -5000, -6088, -7071, -7934, -8660, -9239, -9659, -9914,
       -10000, -9914, -9659, -9239, -8660, -7934, -7071, -6088,
       -5000, -3827, -2588, -1305, 0, 1305, 2588, 3827,
       5000, 6088, 7071, 7934, 8660, 9239, 9659, 9914 >>

\* math.sin(2 * math.pi * i / CIRCLE_STEPS) * TrigScale for i = 0 .. 47
SinTab48 ==
    << 0, 1305, 2588, 3827, 5000, 6088, 7071, 7934,
       8660, 9239, 9659, 9914, 10000, 9914, 9659, 9239,
       8660, 7934, 7071, 6088, 5000, 3827, 2588, 1305,
       0, -1305, -2588, -3827, -5000, -6088, -7071, -7934,
       -8660, -9239, -9659, -9914, -10000, -9914, -9659, -9239,
       -8660, -7934, -7071, -6088, -5000, -3827, -2588, -1305 >>

\* ellipse_to_segments(cx, cy, rx, ry): CIRCLE_STEPS + 1 points, the first a
\* 'move'
ellipse_to_segments(cx, cy, r_x, r_y) ==
    [k \in 1..(CIRCLE_STEPS + 1) |->
        Seg(IF k = 1 THEN "move" ELSE "line",
            cx + MulDiv(r_x, CosTab48[((k - 1) % CIRCLE_STEPS) + 1], TrigScale),
            cy + MulDiv(r_y, SinTab48[((k - 1) % CIRCLE_STEPS) + 1], TrigScale))]

\* circle_to_segments(cx, cy, r)
circle_to_segments(cx, cy, r) == ellipse_to_segments(cx, cy, r, r)

\* rect_to_segments(x, y, w, h)
rect_to_segments(x, y, w, h) ==
    << Seg("move", x, y), Seg("line", x + w, y), Seg("line", x + w, y + h),
       Seg("line", x, y + h), Seg("line", x, y) >>

\* polyline_to_segments(points_str, close): pts = zip(nums[0::2], nums[1::2])
polyline_to_segments(nums, close) ==
    LET n == Len(nums) \div 2
        open == [k \in 1..n |-> Seg(IF k = 1 THEN "move" ELSE "line",
                                    nums[2 * k - 1], nums[2 * k])]
    IN  IF n = 0 THEN << >>
        ELSE IF close /\ n > 1 THEN Append(open, Seg("line", nums[1], nums[2]))
        ELSE open

\* what parse_svg extends all_segments by for one element that is not a path
ElemSegments(tag, a) ==
    CASE tag = "circle" ->
             IF a[3] > 0 THEN circle_to_segments(a[1], a[2], a[3]) ELSE << >>
      [] tag = "ellipse" ->
             IF a[3] > 0 /\ a[4] > 0 THEN ellipse_to_segments(a[1], a[2], a[3], a[4])
             ELSE << >>
      [] tag = "rect" ->
             IF a[3] > 0 /\ a[4] > 0 THEN rect_to_segments(a[1], a[2], a[3], a[4])
             ELSE << >>
      [] tag = "line" -> << Seg("move", a[1], a[2]), Seg("line", a[3], a[4]) >>
      [] tag = "polyline" -> polyline_to_segments(a, FALSE)
      [] OTHER -> polyline_to_segments(a, TRUE)

MaxNums == 4

\* attribute values, in 0.001 SVG units
AttrValues == {0, 10000, -2500}

\* the elements that are not paths, each with the numbers of its attributes
ElemInputs ==
    { [tag |-> "circle", tokens |-> [k \in 1..3 |-> Num(a[k])]] : a \in [1..3 -> AttrValues] }
        \cup { [tag |-> g, tokens |-> [k \in 1..4 |-> Num(a[k])]] :
                   g \in {"ellipse", "rect", "line"}, a \in [1..4 -> AttrValues] }
        \cup { [tag |-> g, tokens |-> [k \in 1..Len(a) |-> Num(a[k])]] :
                   g \in {"polyline", "polygon"},
                   a \in UNION { [1..n -> AttrValues] : n \in 1..MaxNums } }

\* the helper of the element is called
ElemCall ==
    /\ fn_out.via = "none"
    /\ fn_in.tag # "path"
    /\ fn_out' = [via |-> "element",
                  segments |-> ElemSegments(fn_in.tag,
                                  [k \in 1..Len(fn_in.tokens) |-> fn_in.tokens[k].num])]
    /\ UNCHANGED <<fn_in, job, pc, exitCode, todo, wire>>
    /\ UNCHANGED drvVars
    /\ UNCHANGED penVars
    /\ UNCHANGED rossVars

\* the segments of the element are there
SegmentsReturned == PathReturned \/ fn_out.via = "element"

InitPath ==
    /\ fn_in \in [tag : {"path"}, tokens : PathTokens] \cup ElemInputs
    /\ fn_out = NoCall
    /\ job = SvgJob(NoSegs, 0, FALSE)
    /\ pc = "closed"
    /\ exitCode = 1
    /\ todo = << >>
    /\ wire = << >>
    /\ DrvInit
    /\ PenInit
    /\ NoRoss

NextPath ==
    \/ PathCall
    \/ PathStep
    \/ ElemCall

SpecPath == InitPath /\ [][NextPath]_vars

\* C21: every list of segments that parse_path_d returns, and every list
\* made for a circle, ellipse, rect, line, polyline or polygon element, is
\* empty or begins with a 'move' segment.
C21_FirstSegmentIsMove ==
    (SegmentsReturned /\ fn_out.segments # << >>) => fn_out.segments[1].kind = "move"

\* C22: in parse_path_d, a smooth command S/s or T/t that follows a curve
\* command takes as its first control point the reflection of that command's
\* final control point about the current point; it takes the current point
\* itself only when the previous command had no control point.
C22_SmoothReflectsPrevious ==
    (fn_out.via = "parse_path_d" /\ fn_out.smooth.n > 0) =>
        IF fn_out.smooth.prev.has
        THEN /\ fn_out.smooth.x1 = 2 * fn_out.smooth.at_x - fn_out.smooth.prev.x
             /\ fn_out.smooth.y1 = 2 * fn_out.smooth.at_y - fn_out.smooth.prev.y
        ELSE /\ fn_out.smooth.x1 = fn_out.smooth.at_x
             /\ fn_out.smooth.y1 = fn_out.smooth.at_y

\* C23: in parse_path_d, an iteration that reads Z/z appends the line to the
\* subpath start only when the current point is more than 0.01 away from it
\* on some axis, sets the current point to the subpath start and leaves no
\* current command; an iteration that finds a number after a Z/z, no command
\* letter having been read since, appends no segment.
C23_CloseResetsCommand ==
    [][ (fn_out.via = "parse_path_d" /\ fn_out'.via = "parse_path_d") =>
            LET t == fn_in.tokens[fn_out.i]
                apart == \/ Abs(fn_out.cx - fn_out.sx) > 10
                         \/ Abs(fn_out.cy - fn_out.sy) > 10
            IN  /\ t.letter \in {"Z", "z"} =>
                       /\ fn_out'.segments =
                              IF apart
                              THEN Append(fn_out.segments, Seg("line", fn_out.sx, fn_out.sy))
                              ELSE fn_out.segments
                       /\ fn_out'.cx = fn_out.sx
                       /\ fn_out'.cy = fn_out.sy
                       /\ fn_out'.cmd = ""
                /\ (fn_out.last \in {"Z", "z"} /\ ~IsLetter(t)) =>
                       /\ fn_out'.segments = fn_out.segments
                       /\ fn_out'.cmd = "" ]_vars

\* "M 10 20 L 30 5 z 5 5" has been parsed: the z closed the subpath with a
\* line and the two numbers after it were passed over
C23_Witness ==
    /\ PathReturned
    /\ fn_out.last = "z"
    /\ fn_out.skipped = 2
    /\ Len(fn_out.segments) = 3
    /\ fn_out.segments[3] = Seg("line", 10000, 20000)

(***************************************************************************)
(* huenit_write.py: calculate_text_width and render_text called on one     *)
(* line of text.  fn_in is [text, size, spacing]; sizes and spacings are   *)
(* in internal units.                                                      *)
(***************************************************************************)
MaxText == 3

TextChars == {"A", "I", "M", " ", "#"}

TextInputs == UNION { [1..n -> TextChars] : n \in 0..MaxText }

\* --size and --spacing: 10 mm and 1.2345 mm; 2 mm, none and -0.5 mm
TextSizes == {100000, 12345}

TextSpacings == {20000, 0, -5000}

InitText ==
    /\ fn_in \in [text : TextInputs, size : TextSizes, spacing : TextSpacings]
    /\ fn_out = NoCall
    /\ job = TextJob(NoLines, 0, FALSE)
    /\ pc = "closed"
    /\ exitCode = 1
    /\ todo = << >>
    /\ wire = << >>
    /\ DrvInit
    /\ PenInit
    /\ NoRoss

\* calculate_text_width of the text, and of its first k characters and of
\* the rest
WidthCall ==
    /\ fn_out.via = "none"
    /\ \E k \in 0..Len(fn_in.text) :
           fn_out' = [via |-> "calculate_text_width", k |-> k,
                      total |-> calculate_text_width(fn_in.text, fn_in.size, fn_in.spacing),
                      left |-> calculate_text_width(SubSeq(fn_in.text, 1, k),
                                                    fn_in.size, fn_in.spacing),
                      right |-> calculate_text_width(SubSeq(fn_in.text, k + 1, Len(fn_in.text)),
                                                     fn_in.size, fn_in.spacing)]
    /\ UNCHANGED <<fn_in, job, pc, exitCode, todo, wire>>
    /\ UNCHANGED drvVars
    /\ UNCHANGED penVars
    /\ UNCHANGED rossVars

\* "pen = Pen(g, Z_UP, args.feed); pen.is_up = True"
NewPen == [up |-> TRUE, x |-> 0, y |-> 0, out |-> << >>]

\* the text with a space in the place of every character the font lacks
Blanked(text) ==
    [k \in 1..Len(text) |-> IF HasGlyph(text[k]) THEN text[k] ELSE " "]

\* render_text: one iteration of "for ch in text" on [pen, cursor_x]
render_text_iter(r, ch, size, spacing, z_up, feed) ==
    [pen |-> IF HasGlyph(ch) /\ FONT(ch) # << >>
             THEN RenderGlyph(r.pen, ch, r.cursor_x, size, z_up, feed)
             ELSE r.pen,
     cursor_x |-> r.cursor_x + Advance(ch, size, spacing)]

\* render_text is entered, with the text and with the blanked text
RenderCall ==
    /\ fn_out.via = "none"
    /\ fn_out' = [via |-> "render_text", k |-> 0, returned |-> FALSE,
                  run |-> [pen |-> NewPen, cursor_x |-> 0],
                  twin |-> [pen |-> NewPen, cursor_x |-> 0]]
    /\ UNCHANGED <<fn_in, job, pc, exitCode, todo, wire>>
    /\ UNCHANGED drvVars
    /\ UNCHANGED penVars
    /\ UNCHANGED rossVars

\* the next character of both
RenderStep ==
    /\ fn_out.via = "render_text"
    /\ fn_out.k < Len(fn_in.text)
    /\ fn_out' = [fn_out EXCEPT
                     !.k = @ + 1,
                     !.run = render_text_iter(@, fn_in.text[fn_out.k + 1], fn_in.size,
                                              fn_in.spacing, job.z_up, job.feed),
                     !.twin = render_text_iter(@, Blanked(fn_in.text)[fn_out.k + 1],
                                               fn_in.size, fn_in.spacing, job.z_up, job.feed)]
    /\ UNCHANGED <<fn_in, job, pc, exitCode, todo, wire>>
    /\ UNCHANGED drvVars
    /\ UNCHANGED penVars
    /\ UNCHANGED rossVars

\* "pen.move_to_abs(0, 0)" and return
RenderReturn ==
    /\ fn_out.via = "render_text"
    /\ fn_out.k = Len(fn_in.text)
    /\ ~fn_out.returned
    /\ fn_out' = [fn_out EXCEPT
                     !.returned = TRUE,
                     !.run.pen = Pen_move_to_abs(@, 0, 0),
                     !.twin.pen = Pen_move_to_abs(@, 0, 0)]
    /\ UNCHANGED <<fn_in, job, pc, exitCode, todo, wire>>
    /\ UNCHANGED drvVars
    /\ UNCHANGED penVars
    /\ UNCHANGED rossVars

NextText ==
    \/ WidthCall
    \/ RenderCall
    \/ RenderStep
    \/ RenderReturn

SpecText == InitText /\ [][NextText]_vars

\* size x tabulated width, summed over the characters from the k-th on
RECURSIVE TabulatedSum(_, _, _)
TabulatedSum(text, k, size) ==
    IF k > Len(text) THEN 0
    ELSE MulDiv(size, get_letter_width(text[k]), 10) + TabulatedSum(text, k + 1, size)

\* C24: the width of a text cut in two non-empty parts is the width of the
\* first part plus the spacing plus the width of the second; the width of
\* n >= 1 characters of the font is the sum of size x tabulated width over
\* them plus n - 1 spacings.
C24_WidthAdditive ==
    fn_out.via = "calculate_text_width" =>
        LET n == Len(fn_in.text)
        IN  /\ (0 < fn_out.k /\ fn_out.k < n) =>
                   fn_out.total = fn_out.left + fn_in.spacing + fn_out.right
            /\ (n >= 1 /\ \A j \in 1..n : HasGlyph(fn_in.text[j])) =>
                   fn_out.total = TabulatedSum(fn_in.text, 1, fn_in.size)
                                      + (n - 1) * fn_in.spacing

\* "AM" at 10 mm with 2 mm spacing: 9 + 2 + 10 mm
C24_Witness ==
    /\ fn_out.via = "calculate_text_width"
    /\ fn_in.text = <<"A", "M">>
    /\ fn_in.size = 100000
    /\ fn_in.spacing = 20000
    /\ fn_out.k = 1
    /\ fn_out.left = 90000
    /\ fn_out.right = 100000
    /\ fn_out.total = 210000

\* C25: an iteration of render_text over a character the font lacks sends no
\* command and advances cursor_x by size x 0.5 + spacing; at every point the
\* pen, its commands and cursor_x are those of the same text with a space in
\* the place of each such character.
C25_UnknownAdvancesLikeSpace ==
    /\ [](fn_out.via = "render_text" => fn_out.run = fn_out.twin)
    /\ [][ (/\ fn_out.via = "render_text"
            /\ fn_out'.via = "render_text"
            /\ fn_out.k < Len(fn_in.text)
            /\ ~HasGlyph(fn_in.text[fn_out.k + 1])) =>
               /\ fn_out'.run.pen = fn_out.run.pen
               /\ fn_out'.run.cursor_x =
                      fn_out.run.cursor_x + MulDiv(fn_in.size, 5, 10) + fn_in.spacing ]_vars

\* "#A" has been rendered: the A was drawn, starting 7 mm to the right
C25_Witness ==
    /\ fn_out.via = "render_text"
    /\ fn_out.returned
    /\ fn_in.text = <<"#", "A">>
    /\ fn_in.size = 100000
    /\ fn_in.spacing = 20000
    /\ fn_out.run.pen.out # << >>
    /\ fn_out.run.cursor_x = 70000 + 90000 + 20000

(***************************************************************************)
(* The strokes on the wire: what lies between a pen drop and the pen lift  *)
(* after it.                                                               *)
(***************************************************************************)
\* the moves of w written with feed f
MovesAt(w, f) == { k \in 1..Len(w) : IsMove(w[k]) /\ w[k].f = f }

\* the first index of T above n, 0 if none
NextIn(T, n) ==
    LET A == { k \in T : k > n }
    IN  IF A = {} THEN 0 ELSE CHOOSE k \in A : \A m \in A : k <= m

\* the pen drops of w
Drops(w) == { k \in Toggles(w) : w[k].z < 0 }

\* every pen drop of w is followed by a pen lift, all moves between the two
\* are at draw feed, and their X words and their Y words sum to at most epsx
\* and epsy in absolute value
StrokesClose(w, epsx, epsy) ==
    \A i \in Drops(w) :
        LET j == NextIn(Toggles(w), i)
        IN  /\ j > 0
            /\ w[j].z > 0
            /\ \A k \in i..j : IsMove(w[k]) => w[k].f = DRAW_FEED
            /\ Abs(SumXIn(w, i, j)) <= epsx
            /\ Abs(SumYIn(w, i, j)) <= epsy

\* C26: once the square command with size s has run, the wire holds exactly
\* four moves at draw feed, with the X and Y words (s, 0), (0, s), (-s, 0),
\* (0, -s) in this order, s as written with three decimals; they sum to
\* (0, 0), the pen is down before each of them, and the only other moves are
\* two moves at travel feed, one before and one after them, each with the
\* pen up.
C26_SquareFourEdges ==
    (DrawingReturned /\ job.kind = "square") =>
        LET s  == Fmt3(SizeOr(job.size, Milli(30000)))
            T  == Toggles(wire)
            D  == MovesAt(wire, DRAW_FEED)
            Tr == MovesAt(wire, TRAVEL_FEED)
            e  == [k \in 1..4 |-> CHOOSE i \in D : Cardinality({ m \in D : m <= i }) = k]
        IN  /\ Cardinality(D) = 4
            /\ <<wire[e[1]].x, wire[e[1]].y>> = <<s, 0>>
            /\ <<wire[e[2]].x, wire[e[2]].y>> = <<0, s>>
            /\ <<wire[e[3]].x, wire[e[3]].y>> = <<-s, 0>>
            /\ <<wire[e[4]].x, wire[e[4]].y>> = <<0, -s>>
            /\ \A i \in D : ~PenUpIn(wire, T, i - 1)
            /\ StrokesClose(wire, 0, 0)
            /\ Cardinality(Tr) = 2
            /\ \A i \in Tr : PenUpIn(wire, T, i - 1)
            /\ \E i, j \in Tr : i < e[1] /\ e[4] < j
            /\ \A i \in 1..Len(wire) : IsMove(wire[i]) => i \in D \cup Tr

\* a square of 2.0006 mm has been drawn: its edges are written as 2.001
C26_Witness ==
    /\ DrawingReturned
    /\ job.kind = "square"
    /\ job.size = 20006
    /\ \E i \in MovesAt(wire, DRAW_FEED) : wire[i].x = 2001 /\ wire[i].y = 0
    /\ \E i \in MovesAt(wire, DRAW_FEED) : wire[i].x = 0 /\ wire[i].y = -2001

C28_NotReadyNoMotion ==
    ~job.ready =>
        /\ \A i \in 1..Len(wire) : wire[i].op # "G1"
        /\ \A i \in 1..Len(todo) : todo[i].op # "G1"
        /\ exitCode # 0
        /\ pc = "closed" => exitCode = 1

\* a square job without the marker has ended: it opened the port, set the
\* modes, failed and restored absolute mode
C28_Witness ==
    /\ ~job.ready
    /\ job.kind = "square"
    /\ pc = "closed"
    /\ exitCode = 1
    /\ Len(wire) = 3
    /\ wire[1].op = "G21"
    /\ wire[3].op = "G90"

\* C29: the emergency pen lift is written when the subprocess is gone, and
\* when one was still running it was sent the terminate before; the write
\* appends G21, G91, G1 Z5 F800, M400 in this order, and once
\* _emergency_stop has returned from a lift it wrote, the last five lines of
\* the wire are these four and G90.
C29_EmergencyLiftOrder ==
    /\ [][ (lifted = "no" /\ lifted' = "written") =>
               /\ ~Alive
               /\ pc # "closed" => termSent
               /\ Len(wire') = Len(wire) + 4
               /\ SubSeq(wire', 1, Len(wire)) = wire
               /\ [k \in 1..4 |-> wire'[Len(wire) + k].op] = <<"G21", "G91", "G1", "M400">> ]_vars
    /\ []((lifted = "written" /\ mpc \in {"drawn", "outro", "returned"}) =>
             LET n == Len(wire)
             IN  /\ n >= 5
                 /\ [k \in 1..5 |-> wire[n - 5 + k].op]
                        = <<"G21", "G91", "G1", "M400", "G90">>
                 /\ ~wire[n - 2].hasX /\ ~wire[n - 2].hasY /\ wire[n - 2].hasZ
                 /\ wire[n - 2].z = 5000
                 /\ wire[n - 2].f = 800)

\* a subprocess that had written part of its stream was terminated, and
\* _emergency_stop has returned with the lift and G90 on the wire
C29_Witness ==
    /\ lifted = "written"
    /\ mpc = "returned"
    /\ termSent
    /\ pc = "killed"
    /\ Len(wire) > 7
    /\ wire[Len(wire)].op = "G90"
    /\ wire[Len(wire) - 1].op = "M400"

\* C30: the draw job stops between two sends only: when the subprocess has
\* stopped on a cancellation, no send of it is left in its ack wait, i.e.
\* the wait of its last line has ended by an 'ok' or by its timeout.
C30_StopsBetweenSteps ==
    pc = "killed" => sphase = "idle"

(***************************************************************************)
(* SpecFlat: the moves of huenit_draw.py and of draw_segments called on    *)
(* their own with an X delta and no Y delta.  fn_in is [tilt, dx].         *)
(***************************************************************************)
\* tilt_slope times TiltScale: those of TiltSlopes, and slopes of 1 and -3
FlatSlopes == TiltSlopes \cup {TiltScale, -3 * TiltScale}

InitFlat ==
    /\ fn_in \in [tilt : FlatSlopes, dx : TiltDys]
    /\ fn_out = NoCall
    /\ job = ShapeJob("unknown", 0, 0, FALSE)
    /\ pc = "closed"
    /\ exitCode = 1
    /\ todo = << >>
    /\ wire = << >>
    /\ DrvInit
    /\ PenInit
    /\ NoRoss

\* move_to(g, dx, 0)
FlatMoveTo ==
    /\ fn_out.via = "none"
    /\ fn_out' = [via |-> "move_to", cmds |-> move_to(fn_in.tilt, fn_in.dx, 0)]
    /\ UNCHANGED <<fn_in, job, pc, exitCode, todo, wire>>
    /\ UNCHANGED drvVars
    /\ UNCHANGED penVars
    /\ UNCHANGED rossVars

\* draw_to(g, dx, 0)
FlatDrawTo ==
    /\ fn_out.via = "none"
    /\ fn_out' = [via |-> "draw_to", cmds |-> draw_to(fn_in.tilt, fn_in.dx, 0)]
    /\ UNCHANGED <<fn_in, job, pc, exitCode, todo, wire>>
    /\ UNCHANGED drvVars
    /\ UNCHANGED penVars
    /\ UNCHANGED rossVars

\* draw_segments: the move of a 'move' or of a 'line' segment dx to the right
\* of the cursor, at the same height
FlatSegMove ==
    /\ fn_out.via = "none"
    /\ \E kind \in {"travel", "draw"} :
           fn_out' = [via |-> "draw_segments",
                      cmds |-> SegMove(kind, fn_in.tilt, fn_in.dx, 0,
                                       IF kind = "draw" THEN DRAW_FEED ELSE TRAVEL_FEED)]
    /\ UNCHANGED <<fn_in, job, pc, exitCode, todo, wire>>
    /\ UNCHANGED drvVars
    /\ UNCHANGED penVars
    /\ UNCHANGED rossVars

NextFlat ==
    \/ FlatMoveTo
    \/ FlatDrawTo
    \/ FlatSegMove

SpecFlat == InitFlat /\ [][NextFlat]_vars

\* C31: the lines that move_to, draw_to and the move of draw_segments write
\* for a Y delta of zero carry no Z word, at every tilt_slope.
C31_NoZWithoutY ==
    fn_out.via \in {"move_to", "draw_to", "draw_segments"} =>
        \A k \in 1..Len(fn_out.cmds) : ~fn_out.cmds[k].hasZ

\* draw_segments has written a move of 3.7013 mm in X on a surface with a
\* slope of 1: the line has its X word and a Y word of zero
C31_Witness ==
    /\ fn_out.via = "draw_segments"
    /\ fn_in.tilt = TiltScale
    /\ fn_in.dx = 37013
    /\ Len(fn_out.cmds) = 2
    /\ fn_out.cmds[1].x = 3701
    /\ fn_out.cmds[1].hasY
    /\ fn_out.cmds[1].y = 0

\* the number of segments one run of a command appends
SegsOf(cmd) == IF Upper(cmd) \in {"C", "S", "Q", "T"} THEN CURVE_STEPS ELSE 1

\* C32: in parse_path_d, an iteration that finds a number while a command is
\* current, with a full group of arguments ahead, runs that command again:
\* it consumes the group, appends the segments of one more run and leaves the
\* command current; for L/l the appended segment is the line to the pair,
\* taken from the origin for L and from the current point for l.  An
\* iteration that reads M leaves L current, one that reads m leaves l.
C32_ImplicitRepetition ==
    [][ (/\ fn_out.via = "parse_path_d"
         /\ fn_out'.via = "parse_path_d"
         /\ fn_out.i <= Len(fn_in.tokens)) =>
            LET t == fn_in.tokens[fn_out.i]
                n == NumsFor(Upper(fn_out.cmd))
                len == Len(fn_out'.segments)
            IN  /\ t.letter = "M" => fn_out'.cmd = "L"
                /\ t.letter = "m" => fn_out'.cmd = "l"
                /\ (/\ ~IsLetter(t)
                    /\ fn_out.cmd # ""
                    /\ Taken(fn_in.tokens, fn_out.i, n) = n) =>
                       /\ fn_out'.i = fn_out.i + n
                       /\ fn_out'.cmd = fn_out.cmd
                       /\ len = Len(fn_out.segments) + SegsOf(fn_out.cmd)
                       /\ SubSeq(fn_out'.segments, 1, Len(fn_out.segments)) = fn_out.segments
                       /\ fn_out.cmd = "L" =>
                              fn_out'.segments[len] =
                                  Seg("line", t.num, fn_in.tokens[fn_out.i + 1].num)
                       /\ fn_out.cmd = "l" =>
                              fn_out'.segments[len] =
                                  Seg("line", fn_out.cx + t.num,
                                      fn_out.cy + fn_in.tokens[fn_out.i + 1].num) ]_vars

\* "m 5 -5 10 10" has been parsed: a move to (5, -5) and a line to (15, 5)
C32_Witness ==
    /\ PathReturned
    /\ fn_out.last = "l"
    /\ fn_out.segments = << Seg("move", 5000, -5000), Seg("line", 15000, 5000) >>

InitDemo ==
    /\ job \in { ShapeJob("demo", s, t, r) : s \in ShapeSizes, t \in {0, 2500}, r \in BOOLEAN }
    /\ JobInit

NextDemo ==
    \/ DrawMain
    \/ PromptDriver

SpecDemo == InitDemo /\ [][NextDemo]_vars

\* C34: once the demo is drawn, the X words and the Y words of all the moves
\* on the wire sum to (0, 0), each within one step of the wire's resolution,
\* and the pen is up.
C34_DemoReturnsToStart ==
    (DrawingReturned /\ job.kind = "demo") =>
        /\ Abs(SumX(wire)) <= 1
        /\ Abs(SumY(wire)) <= 1
        /\ PenUpIn(wire, Toggles(wire), Len(wire))

\* C35: whenever a send has returned on an 'ok' match, the 'ok' the
\* controller sent for the line just written was among the bytes matched.
C35_AckIsOwn ==
    (returned > 0 /\ sphase = "idle" /\ lastEnd = "ok") => ownAck

\* C36: in draw_segments, when a segment is processed and its commands are
\* sent, the tracked cursor (cur_x, cur_y) is the sum of the X words and of
\* the Y words of the moves on the wire, to the rounding of the wire format
\* (half a step of 0.001 mm for each move written).
C36_CursorIsSumOfMoves ==
    (job.kind = "svg" /\ pc = "body" /\ CallDone) =>
        LET moves == Cardinality({ k \in 1..Len(wire) : IsMove(wire[k]) })
        IN  /\ 2 * Abs(cur_x - Milli(SumX(wire))) <= Sub * moves
            /\ 2 * Abs(cur_y - Milli(SumY(wire))) <= Sub * moves

(***************************************************************************)
(* SpecPen: every kind of drawing job, the demo included, with a           *)
(* controller that answers in time.                                        *)
(***************************************************************************)
InitPen ==
    /\ job \in ProtoJobs \cup { ShapeJob("demo", s, 2500, TRUE) : s \in {0, 20006} }
    /\ JobInit

NextPen ==
    \/ DrawMain
    \/ SvgMain
    \/ WriteMain
    \/ PromptDriver

SpecPen == InitPen /\ [][NextPen]_vars

\* C37: the pen toggles on the wire alternate, starting with a pen drop: the
\* first is a Z of -z_up, and each later one is the Z of the toggle before
\* it with the opposite sign, so the toggles written so far sum to 0 or to
\* -z_up.
C37_TogglesAlternate ==
    LET T == Toggles(wire)
    IN  \A i \in T :
            LET b == LastIn(T, i - 1)
            IN  /\ Abs(wire[i].z) = Fmt2(job.z_up)
                /\ wire[i].z = IF b = 0 THEN -Fmt2(job.z_up) ELSE -wire[b].z

\* a text of three lines has been written with several pen drops and lifts
C37_Witness ==
    /\ DrawingReturned
    /\ job.kind = "text"
    /\ Len(job.lines) = 3
    /\ Cardinality(Toggles(wire)) >= 8

(***************************************************************************)
(* SpecDrift: huenit_svg.py on a tilted surface, for lists of segments     *)
(* with small and with large steps in Y.                                   *)
(***************************************************************************)
\* the origin, two points 0.032 mm and 0.064 mm above it, and a far point
DriftPoints == { <<0, 0>>, <<0, 320>>, <<0, 640>>, <<50000, 37013>> }

DriftLists ==
    UNION { [1..n -> { Seg(k, p[1], p[2]) : k \in {"move", "line"}, p \in DriftPoints }]
            : n \in 0..MaxSegs }

InitDrift ==
    /\ job \in { SvgJob(g, t, TRUE) : g \in DriftLists, t \in {2500, -1300} }
    /\ JobInit

NextDrift ==
    \/ SvgMain
    \/ PromptDriver

SpecDrift == InitDrift /\ [][NextDrift]_vars

\* the sum of the Z words of the moves among lines lo..hi of w
RECURSIVE SumZIn(_, _, _)
SumZIn(w, lo, hi) ==
    IF lo > hi THEN 0
    ELSE IF lo = hi THEN (IF IsMove(w[lo]) THEN ZOf(w[lo]) ELSE 0)
    ELSE LET mid == (lo + hi) \div 2
         IN  SumZIn(w, lo, mid) + SumZIn(w, mid + 1, hi)

\* C38: once a job is drawn whose moves return to the start point (their X
\* words and their Y words sum to zero), the Z words carried by its moves
\* sum to zero.
C38_TiltSumsToZero ==
    (DrawingReturned /\ SumX(wire) = 0 /\ SumY(wire) = 0) =>
        SumZIn(wire, 1, Len(wire)) = 0

(***************************************************************************)
(* SpecPathFair: parse_path_d on the token mixes that could keep its loop  *)
(* from moving on, with the call and the loop running on: a started call   *)
(* takes its next iteration.                                               *)
(***************************************************************************)
\* numbers before any command, numbers after z, commands with none or too
\* few of their numbers, and complete commands
StallChunks ==
    { << Num(10000), Num(10000) >>,
      Chunk("z", <<5000, 5000>>),
      Chunk("v", << >>),
      Chunk("C", <<0, 10000>>),
      Chunk("A", <<5000>>),
      Chunk("M", <<10000, 20000>>),
      Chunk("l", <<0, 4>>) }

StallTokens == { Flatten(cs) : cs \in UNION { [1..n -> StallChunks] : n \in 0..MaxChunks } }

InitPathFair ==
    /\ fn_in \in [tag : {"path"}, tokens : StallTokens]
    /\ fn_out = NoCall
    /\ job = SvgJob(NoSegs, 0, FALSE)
    /\ pc = "closed"
    /\ exitCode = 1
    /\ todo = << >>
    /\ wire = << >>
    /\ DrvInit
    /\ PenInit
    /\ NoRoss

NextPathFair ==
    \/ PathCall
    \/ PathStep

SpecPathFair ==
    InitPathFair /\ [][NextPathFair]_vars /\ WF_vars(PathCall) /\ WF_vars(PathStep)

\* C39: every iteration of the loop of parse_path_d moves i forward by at
\* least one token and not beyond the end of the tokens, and a call of
\* parse_path_d returns, whatever the tokens.
C39_ParseTerminates ==
    /\ [][ (fn_out.via = "parse_path_d" /\ fn_out'.via = "parse_path_d") =>
               /\ fn_out'.i > fn_out.i
               /\ fn_out'.i <= Len(fn_in.tokens) + 1 ]_vars
    /\ (fn_in.tag = "path" ~> PathReturned)

\* numbers, a v without its number and a z followed by numbers have been
\* parsed: four numbers were passed over
C39_Witness ==
    /\ PathReturned
    /\ Len(fn_in.tokens) = 6
    /\ ~IsLetter(fn_in.tokens[1])
    /\ fn_in.tokens[3].letter = "v"
    /\ fn_in.tokens[4].letter = "z"
    /\ fn_out.skipped = 4

\* C40: when render_text has gone over a line of one character or more,
\* cursor_x is calculate_text_width of the line plus one spacing, for lines
\* with characters the font lacks as well.
C40_AdvanceIsWidthPlusSpacing ==
    (/\ fn_out.via = "render_text"
     /\ fn_out.k = Len(fn_in.text)
     /\ fn_in.text # << >>) =>
        fn_out.run.cursor_x =
            calculate_text_width(fn_in.text, fn_in.size, fn_in.spacing) + fn_in.spacing

====
